---------------------------- MODULE Spec2Model ----------------------------
(***************************************************************************)
(* ForgeDB: an embedded LSM key-value store.  The model covers the engine  *)
(* (internal/db), the write-ahead log (internal/wal), the memtable         *)
(* (internal/memtable) and the SSTable file format (internal/sstable).     *)
(*                                                                         *)
(* Byte strings (keys, values, file contents, file names) are sequences of *)
(* numbers 0..255.  Go's nil and zero-length []byte are both <<>>.         *)
(***************************************************************************)
EXTENDS Integers, Sequences, FiniteSets, TLC

(***************************************************************************)
(* Bounds of the model.                                                    *)
(***************************************************************************)
MaxOps == 2        \* Put/Delete calls issued in one run
MaxFlush == 2      \* Flush calls that get as far as creating the temp file
MaxEvents == 1     \* Close calls, crashes and injected I/O failures in one run
MaxEntries == 70   \* entries of the longest table handed to WriteTable
MaxAppends == 3    \* Append calls on the WAL driven on its own
MaxRecords == 2    \* frames of the longest log file handed to Replay
MaxWriters == 2    \* goroutines appending to one WAL
MaxSlices == 4     \* backing arrays allocated in one run of the memtable

(***************************************************************************)
(* Inputs: the keys and values handed to Put and Delete.  The zero-length  *)
(* key and the zero-length value are accepted by the API and are included. *)
(***************************************************************************)
Keys == {<<>>, <<97>>}
Values == {<<>>, <<49>>}

\* the i-th key of an ascending sequence of two-byte keys, the keys handed to
\* WriteTable and sstable.Get
keyAt(i) == <<97 + ((i - 1) \div 26), 97 + ((i - 1) % 26)>>
TableKeys == {keyAt(i) : i \in 1..(2 * MaxEntries + 1)}

(***************************************************************************)
(* Little-endian integers (encoding/binary).                               *)
(***************************************************************************)
u32le(n) ==
    <<n % 256, (n \div 256) % 256, (n \div 65536) % 256, (n \div 16777216) % 256>>

\* offsets of the model stay below 2^31, so the upper four bytes are zero
u64le(n) == u32le(n) \o <<0, 0, 0, 0>>

\* the bytes b[off+1 .. off+n] of b (off is a 0-based file offset)
Slice(b, off, n) == SubSeq(b, off + 1, off + n)

rdU32(b, off) ==
    b[off + 1] + 256 * b[off + 2] + 65536 * b[off + 3] + 16777216 * b[off + 4]

(***************************************************************************)
(* Go string comparison: lexicographic on bytes.                           *)
(***************************************************************************)
RECURSIVE KeyLess(_, _)
KeyLess(a, b) ==
    IF b = <<>> THEN FALSE
    ELSE IF a = <<>> THEN TRUE
    ELSE IF a[1] # b[1] THEN a[1] < b[1]
    ELSE KeyLess(Tail(a), Tail(b))


(***************************************************************************)
(* 64-bit unsigned arithmetic of the Bloom hashing, on 8 little-endian     *)
(* bytes (the checker's integers are 32 bits wide).                        *)
(***************************************************************************)
RECURSIVE xorBits(_, _, _)
xorBits(a, b, n) ==
    IF n = 0 THEN 0
    ELSE (((a % 2) + (b % 2)) % 2) + 2 * xorBits(a \div 2, b \div 2, n - 1)

Xor64(x, y) == [i \in 1..8 |-> xorBits(x[i], y[i], 8)]

RECURSIVE mulColumn(_, _, _, _)
mulColumn(x, y, k, i) ==
    IF i > k THEN 0 ELSE x[i] * y[k + 1 - i] + mulColumn(x, y, k, i + 1)

RECURSIVE mulFrom(_, _, _, _)
mulFrom(x, y, k, carry) ==
    IF k > 8 THEN <<>>
    ELSE LET s == carry + mulColumn(x, y, k, 1)
         IN  <<s % 256>> \o mulFrom(x, y, k + 1, s \div 256)

\* x * y mod 2^64
Mul64(x, y) == mulFrom(x, y, 1, 0)

RECURSIVE addFrom(_, _, _, _)
addFrom(x, y, k, carry) ==
    IF k > 8 THEN <<>>
    ELSE LET s == carry + x[k] + y[k]
         IN  <<s % 256>> \o addFrom(x, y, k + 1, s \div 256)

\* x + y mod 2^64
Add64(x, y) == addFrom(x, y, 1, 0)

\* x >> 33
Shr33(x) ==
    LET w == [i \in 1..9 |-> IF i + 4 <= 8 THEN x[i + 4] ELSE 0]
    IN  [i \in 1..8 |-> (w[i] \div 2) + 128 * (w[i + 1] % 2)]

RECURSIVE modFrom(_, _, _, _)
modFrom(x, m, k, r) ==
    IF k = 0 THEN r ELSE modFrom(x, m, k - 1, (r * 256 + x[k]) % m)

\* x % m, for m up to 2^23
Mod64(x, m) == modFrom(x, m, 8, 0)

U64(n) == u64le(n)

fnvOffset64 == <<37, 35, 34, 132, 228, 156, 242, 203>>     \* 0xcbf29ce484222325
fnvPrime64 == <<179, 1, 0, 0, 0, 1, 0, 0>>                 \* 0x00000100000001b3
golden64 == <<21, 124, 74, 127, 185, 121, 55, 158>>        \* 0x9e3779b97f4a7c15
mixC1 == <<205, 140, 85, 237, 215, 175, 81, 255>>          \* 0xff51afd7ed558ccd
mixC2 == <<83, 236, 133, 26, 254, 185, 206, 196>>          \* 0xc4ceb9fe1a85ec53

RECURSIVE fnvFrom(_, _)
fnvFrom(h, s) ==
    IF s = <<>> THEN h
    ELSE fnvFrom(Mul64(Xor64(h, <<s[1], 0, 0, 0, 0, 0, 0, 0>>), fnvPrime64), Tail(s))

\* FNV-1a, 64 bits
fnv64a(s) == fnvFrom(fnvOffset64, s)

mix64(x) ==
    LET x1 == Xor64(x, Shr33(x))
        x2 == Mul64(x1, mixC1)
        x3 == Xor64(x2, Shr33(x2))
        x4 == Mul64(x3, mixC2)
    IN  Xor64(x4, Shr33(x4))

\* the bit positions bloom.add sets and bloom.mayContain probes for key, in
\* probing order (i = 0 .. k-1), in a filter of m bits and k taps
bloomTaps(m, k, key) ==
    LET h1 == fnv64a(key)
        h2 == mix64(Xor64(h1, golden64))
    IN  [i \in 1..k |-> Mod64(Add64(h1, Mul64(U64(i - 1), h2)), m)]

(***************************************************************************)
(* types.Entry and the memtable.  The memtable is represented by the       *)
(* level-0 chain of its skip-list: the sequence of entries in ascending    *)
(* key order, one per key.                                                 *)
(***************************************************************************)
Entry(key, value, tomb) == [key |-> key, value |-> value, tomb |-> tomb]

NewMemTable == <<>>

\* number of nodes whose key is < key: the descent of Search/Upsert/FirstGE
RECURSIVE skipLess(_, _)
skipLess(sl, key) ==
    IF sl # <<>> /\ KeyLess(sl[1].key, key) THEN 1 + skipLess(Tail(sl), key) ELSE 0

\* SkipList.Search: (entry, found)
Search(sl, key) ==
    LET i == skipLess(sl, key) + 1
    IN  IF i <= Len(sl) /\ sl[i].key = key
        THEN [ok |-> TRUE, entry |-> sl[i]]
        ELSE [ok |-> FALSE, entry |-> Entry(<<>>, <<>>, FALSE)]

\* SkipList.Upsert: overwrite the entry of an existing node, else link a
\* new node after the predecessors
Upsert(sl, key, entry) ==
    LET n == skipLess(sl, key)
    IN  IF n + 1 <= Len(sl) /\ sl[n + 1].key = key
        THEN [sl EXCEPT ![n + 1] = entry]
        ELSE SubSeq(sl, 1, n) \o <<entry>> \o SubSeq(sl, n + 1, Len(sl))

\* MemTable.Put (cloneBytes copies the value)
MemPut(m, key, value) == Upsert(m, key, Entry(key, value, FALSE))

\* MemTable.Delete
MemDelete(m, key) == Upsert(m, key, Entry(key, <<>>, TRUE))

\* MemTable.Get
MemGet(m, key) ==
    LET r == Search(m, key)
    IN  IF ~r.ok \/ r.entry.tomb
        THEN [ok |-> FALSE, value |-> <<>>]
        ELSE [ok |-> TRUE, value |-> r.entry.value]

\* MemTable.GetAll: the entry for key, tombstones included
GetAll(m, key) == Search(m, key)

\* the walk of Range/RangeAll from node n while n.key < end
RECURSIVE rangeWalk(_, _, _)
rangeWalk(sl, end, all) ==
    IF sl # <<>> /\ (end = <<>> \/ KeyLess(sl[1].key, end))
    THEN (IF all \/ ~sl[1].tomb
          THEN <<Entry(sl[1].key, sl[1].value, sl[1].tomb)>>
          ELSE <<>>) \o rangeWalk(Tail(sl), end, all)
    ELSE <<>>

\* First() when start is empty, FirstGE(start) otherwise
rangeFrom(m, start) ==
    IF start = <<>> THEN m ELSE SubSeq(m, skipLess(m, start) + 1, Len(m))

\* MemTable.Range
Range(m, start, end) == rangeWalk(rangeFrom(m, start), end, FALSE)

\* RangeAll as it would be if it left out the tombstones, as Range does
RangeAll_LiveOnly(m, start, end) == rangeWalk(rangeFrom(m, start), end, FALSE)

\* MemTable.RangeAll
RangeAll(m, start, end) == rangeWalk(rangeFrom(m, start), end, TRUE)

(***************************************************************************)
(* The skip list with its nodes.  A *node is the place of the node in      *)
(* nodes, nilNode for nil; the head is the first node.  forward[i] here is *)
(* forward[i-1] of the code.                                               *)
(***************************************************************************)
maxLevel == 16

nilNode == 0
headNode == 1

\* make([]*node, n)
RECURSIVE makeForward(_)
makeForward(n) == IF n = 0 THEN <<>> ELSE Append(makeForward(n - 1), nilNode)

\* &node{key, entry, forward}
Node(key, entry, forward) == [key |-> key, entry |-> entry, forward |-> forward]

NewSkipList ==
    [nodes |-> <<Node(<<>>, Entry(<<>>, <<>>, FALSE), makeForward(maxLevel))>>, level |-> 1]

\* SkipList.randomLevel, for a generator whose first zeros calls of Intn(2)
\* return 0
randomLevel(zeros) == IF 1 + zeros < maxLevel THEN 1 + zeros ELSE maxLevel

\* the same loop as it would be with <= for <: it goes past the node of key
RECURSIVE skipForward_PastEqual(_, _, _, _)
skipForward_PastEqual(s, x, i, key) ==
    IF s.nodes[x].forward[i] # nilNode /\ ~KeyLess(key, s.nodes[s.nodes[x].forward[i]].key)
    THEN skipForward_PastEqual(s, s.nodes[x].forward[i], i, key)
    ELSE x

\* for x.forward[i] != nil && x.forward[i].key < key { x = x.forward[i] }
RECURSIVE skipForward(_, _, _, _)
skipForward(s, x, i, key) ==
    IF s.nodes[x].forward[i] # nilNode /\ KeyLess(s.nodes[s.nodes[x].forward[i]].key, key)
    THEN skipForward(s, s.nodes[x].forward[i], i, key)
    ELSE x

\* for i := s.level - 1; i >= 0; i-- { ...; update[i] = x }, from level i
\* down: the node reached and the predecessors of key
RECURSIVE findUpdate(_, _, _, _, _)
findUpdate(s, x, i, key, update) ==
    IF i = 0 THEN [x |-> x, update |-> update]
    ELSE CHOOSE r \in {findUpdate(s, y, i - 1, key, [update EXCEPT ![i] = y]) :
                           y \in {skipForward(s, x, i, key)}} : TRUE

\* SkipList.FirstGE: the first node whose key is >= target
SkipFirstGE(s, target) ==
    s.nodes[findUpdate(s, headNode, s.level, target, makeForward(maxLevel)).x].forward[1]

\* SkipList.First
SkipFirst(s) == s.nodes[headNode].forward[1]

\* SkipList.Search: (entry, found)
SkipSearch(s, key) ==
    IF SkipFirstGE(s, key) # nilNode /\ s.nodes[SkipFirstGE(s, key)].key = key
    THEN [ok |-> TRUE, entry |-> s.nodes[SkipFirstGE(s, key)].entry]
    ELSE [ok |-> FALSE, entry |-> Entry(<<>>, <<>>, FALSE)]

\* if lvl > s.level { for i := s.level; i < lvl; i++ { update[i] = s.head } }
raisedUpdate(update, level, lvl) ==
    [i \in 1..maxLevel |-> IF level < i /\ i <= lvl THEN headNode ELSE update[i]]

\* for i := 0; i < lvl; i++ { newNode.forward[i] = update[i].forward[i];
\* update[i].forward[i] = newNode }, from level i up; newNode is the last node
RECURSIVE linkNode(_, _, _, _)
linkNode(nodes, update, i, lvl) ==
    IF i > lvl THEN nodes
    ELSE CHOOSE r \in {linkNode(linked, update, i + 1, lvl) :
             linked \in {[nodes EXCEPT ![Len(nodes)].forward[i] = nodes[update[i]].forward[i],
                                       ![update[i]].forward[i] = Len(nodes)]}} : TRUE

\* SkipList.Upsert, lvl being what randomLevel returns when it is called
SkipUpsert(s, key, entry, lvl) ==
    LET found == findUpdate(s, headNode, s.level, key, makeForward(maxLevel))
        x == s.nodes[found.x].forward[1]
    IN  IF x # nilNode /\ s.nodes[x].key = key
        THEN [s EXCEPT !.nodes[x].entry = entry]
        ELSE [nodes |-> linkNode(Append(s.nodes, Node(key, entry, makeForward(lvl))),
                                 raisedUpdate(found.update, s.level, lvl), 1, lvl),
              level |-> IF lvl > s.level THEN lvl ELSE s.level]

\* MemTable.Put on the skip list
SkipPut(s, key, value, lvl) == SkipUpsert(s, key, Entry(key, value, FALSE), lvl)

\* MemTable.Delete on the skip list
SkipDelete(s, key, lvl) == SkipUpsert(s, key, Entry(key, <<>>, TRUE), lvl)

\* MemTable.Get as it would be without the test of e.Tombstone
SkipGet_Tombstones(s, key) ==
    IF ~SkipSearch(s, key).ok
    THEN [ok |-> FALSE, value |-> <<>>]
    ELSE [ok |-> TRUE, value |-> SkipSearch(s, key).entry.value]

\* MemTable.Get on the skip list
SkipGet(s, key) ==
    IF ~SkipSearch(s, key).ok \/ SkipSearch(s, key).entry.tomb
    THEN [ok |-> FALSE, value |-> <<>>]
    ELSE [ok |-> TRUE, value |-> SkipSearch(s, key).entry.value]

\* the same loop as it would be with n.key <= end: end is taken in
RECURSIVE skipWalk_Inclusive(_, _, _, _)
skipWalk_Inclusive(s, n, end, all) ==
    IF n # nilNode /\ (end = <<>> \/ ~KeyLess(end, s.nodes[n].key))
    THEN (IF all \/ ~s.nodes[n].entry.tomb
          THEN <<Entry(s.nodes[n].key, s.nodes[n].entry.value, s.nodes[n].entry.tomb)>>
          ELSE <<>>) \o skipWalk_Inclusive(s, s.nodes[n].forward[1], end, all)
    ELSE <<>>

\* for n != nil && (end == "" || n.key < end) { ...; n = n.forward[0] }
RECURSIVE skipWalk(_, _, _, _)
skipWalk(s, n, end, all) ==
    IF n # nilNode /\ (end = <<>> \/ KeyLess(s.nodes[n].key, end))
    THEN (IF all \/ ~s.nodes[n].entry.tomb
          THEN <<Entry(s.nodes[n].key, s.nodes[n].entry.value, s.nodes[n].entry.tomb)>>
          ELSE <<>>) \o skipWalk(s, s.nodes[n].forward[1], end, all)
    ELSE <<>>

\* MemTable.Range (all = FALSE) and MemTable.RangeAll (all = TRUE) on the
\* skip list
SkipRange(s, start, end, all) ==
    skipWalk(s, IF start = <<>> THEN SkipFirst(s) ELSE SkipFirstGE(s, start), end, all)

(***************************************************************************)
(* The same operations on slices as Go holds them.  A slice is the address *)
(* of its backing array in the heap h (a sequence of byte strings); the    *)
(* nil slice is address 0.  Two slices with one address share their bytes. *)
(***************************************************************************)
nilSlice == 0

\* the bytes of the slice at address a
bytesOf(h, a) == IF a = nilSlice THEN <<>> ELSE h[a]

\* make([]byte, len(b)) with the bytes b
alloc(h, b) == [heap |-> Append(h, b), addr |-> Len(h) + 1]

\* cloneBytes as it would be if it handed back its argument
cloneBytes_Shared(h, a) == [heap |-> h, addr |-> a]

\* cloneBytes: nil for nil, otherwise a new array with the same bytes
cloneBytes(h, a) ==
    IF a = nilSlice THEN [heap |-> h, addr |-> nilSlice] ELSE alloc(h, h[a])

\* MemTable.Put(key, value) with value the slice at address a
putSlice(h, m, key, a) ==
    LET c == cloneBytes(h, a)
    IN  [heap |-> c.heap, mem |-> Upsert(m, key, Entry(key, c.addr, FALSE))]

\* MemTable.Delete(key)
deleteSlice(m, key) == Upsert(m, key, Entry(key, nilSlice, TRUE))

\* MemTable.Get(key): the slice returned
getSlice(h, m, key) ==
    LET r == Search(m, key)
    IN  IF ~r.ok \/ r.entry.tomb
        THEN [heap |-> h, ok |-> FALSE, value |-> nilSlice]
        ELSE LET c == cloneBytes(h, r.entry.value)
             IN  [heap |-> c.heap, ok |-> TRUE, value |-> c.addr]

\* the walk of Range/RangeAll from node n while n.key < end, out the
\* entries appended so far
RECURSIVE rangeSlices(_, _, _, _, _)
rangeSlices(h, sl, end, all, out) ==
    IF sl # <<>> /\ (end = <<>> \/ KeyLess(sl[1].key, end))
    THEN (IF all \/ ~sl[1].tomb
          THEN LET c == cloneBytes(h, sl[1].value)
               IN  rangeSlices(c.heap, Tail(sl), end, all,
                               Append(out, Entry(sl[1].key, c.addr, sl[1].tomb)))
          ELSE rangeSlices(h, Tail(sl), end, all, out))
    ELSE [heap |-> h, out |-> out]

\* the entries with the bytes of their slices in place of the addresses
contents(h, entries) ==
    [i \in DOMAIN entries |->
        Entry(entries[i].key, bytesOf(h, entries[i].value), entries[i].tomb)]

(***************************************************************************)
(* The write-ahead log.                                                    *)
(*   record: | op(1) | keyLen(u32) | valLen(u32) | key | value |           *)
(***************************************************************************)
opPut == 0
opDelete == 1

Record(op, key, value) == [op |-> op, key |-> key, value |-> value]

\* the bytes AppendPut puts into the buffer
putBytes(key, value) ==
    <<opPut>> \o u32le(Len(key)) \o u32le(Len(value)) \o key \o value

\* AppendDelete as it would be without the valLen field
deleteBytes_NoValLen(key) ==
    <<opDelete>> \o u32le(Len(key)) \o key

\* the bytes AppendDelete puts into the buffer
deleteBytes(key) ==
    <<opDelete>> \o u32le(Len(key)) \o u32le(0) \o key

errNil == "nil"
ErrCorruptWAL == "wal: corrupt record"

\* bufio.NewWriterSize(f, 64*1024)
walBufSize == 65536

\* A stretch of bytes on its way to the file: bytes from..to of the record
\* that goroutine g is appending.
Extent(g, from, to) == [g |-> g, from |-> from, to |-> to]

extentLen(x) == x.to - x.from + 1

\* len of a byte string given as extents
RECURSIVE extentsLen(_)
extentsLen(xs) == IF xs = <<>> THEN 0 ELSE extentLen(xs[1]) + extentsLen(Tail(xs))

\* append(xs, p...), an empty p adding nothing
addExtent(xs, p) == IF extentLen(p) <= 0 THEN xs ELSE Append(xs, p)

\* bufio.Writer.Write(p) on a writer holding buf over a file holding f:
\* while p is longer than the room left, p goes straight to the file when
\* the buffer is empty, otherwise the buffer is filled and flushed
RECURSIVE bufWrite(_, _, _)
bufWrite(buf, f, p) ==
    LET room == walBufSize - extentsLen(buf)
    IN  IF extentLen(p) <= room THEN [buf |-> addExtent(buf, p), file |-> f]
        ELSE IF buf = <<>> THEN [buf |-> <<>>, file |-> addExtent(f, p)]
        ELSE bufWrite(<<>>,
                      f \o addExtent(buf, Extent(p.g, p.from, p.from + room - 1)),
                      Extent(p.g, p.from + room, p.to))

\* bufio.Writer.Flush
bufFlush(buf, f) == [buf |-> <<>>, file |-> f \o buf]

\* the loop of Replay as it would be without the check of the op byte
RECURSIVE replayFrom_AnyOp(_, _, _)
replayFrom_AnyOp(b, off, out) ==
    IF off >= Len(b) THEN [err |-> errNil, records |-> out]
    ELSE IF off + 9 > Len(b) THEN [err |-> ErrCorruptWAL, records |-> <<>>]
    ELSE LET keyLen == rdU32(b, off + 1)
             valLen == rdU32(b, off + 5)
         IN  IF off + 9 + keyLen + valLen > Len(b)
             THEN [err |-> ErrCorruptWAL, records |-> <<>>]
             ELSE replayFrom_AnyOp(b, off + 9 + keyLen + valLen,
                                   Append(out, Record(b[off + 1], Slice(b, off + 9, keyLen),
                                                      Slice(b, off + 9 + keyLen, valLen))))

\* the loop of Replay over the bytes b from offset off, out the records so far
RECURSIVE replayFrom(_, _, _)
replayFrom(b, off, out) ==
    IF off >= Len(b) THEN [err |-> errNil, records |-> out]        \* clean EOF
    ELSE IF off + 9 > Len(b) THEN [err |-> ErrCorruptWAL, records |-> <<>>]
    ELSE LET op == b[off + 1]
             keyLen == rdU32(b, off + 1)
             valLen == rdU32(b, off + 5)
         IN  IF off + 9 + keyLen > Len(b) \/ off + 9 + keyLen + valLen > Len(b)
             THEN [err |-> ErrCorruptWAL, records |-> <<>>]
             ELSE IF op # opPut /\ op # opDelete
             THEN [err |-> ErrCorruptWAL, records |-> <<>>]
             ELSE replayFrom(b, off + 9 + keyLen + valLen,
                             Append(out, Record(op, Slice(b, off + 9, keyLen),
                                                Slice(b, off + 9 + keyLen, valLen))))

\* wal.Replay of a file that exists with contents b
Replay(b) == replayFrom(b, 0, <<>>)

\* wal.Replay of a path: a missing file replays as empty
ReplayPath(exists, b) ==
    IF ~exists THEN [err |-> errNil, records |-> <<>>] ELSE Replay(b)

\* the loop of Open that applies the replayed records to the memtable
RECURSIVE applyRecords(_, _)
applyRecords(m, records) ==
    IF records = <<>> THEN m
    ELSE applyRecords(IF records[1].op = opPut
                      THEN MemPut(m, records[1].key, records[1].value)
                      ELSE MemDelete(m, records[1].key),
                      Tail(records))

(***************************************************************************)
(* SSTable files.                                                          *)
(*   [ header ][ data region ][ sparse index ][ bloom filter ][ footer ]   *)
(* A file is a record: data holds the bytes of the header, the data region *)
(* and the index region; bloom holds the Bloom region (m, k, the declared  *)
(* bitsetLen n, the number len of bitset bytes present and the set bits of *)
(* positions that are 1, or present = FALSE when the file ends before it); *)
(* footer holds the last bytes of the file.                                *)
(***************************************************************************)
magic == 1179862082          \* 0x46534442
indexStride == 32
headerSize == 8
footerSize == 16
bloomBits == 1048576         \* 1 << 20, WriteTable's newBloom(1<<20, 7)
bloomHashes == 7
maxIndexKeySize == 1048576   \* 1 << 20
maxIndexCount == 1048576     \* 1 << 20

ErrCorruptSST == "sstable: corrupt"
errIO == "io error"

NotFound == "NotFound"
Found == "Found"
Deleted == "Deleted"

\* newBloom
newBloom(m, k) ==
    LET mm == IF m < 8 THEN 8 ELSE m
    IN  [m |-> mm, k |-> k, n |-> (mm + 7) \div 8, bits |-> {}]

\* the taps of the keys the engine is given, in WriteTable's filter
tapsTable == [key \in Keys \cup TableKeys |-> bloomTaps(bloomBits, bloomHashes, key)]

tapsFor(m, k, key) ==
    IF m = bloomBits /\ k = bloomHashes /\ key \in DOMAIN tapsTable
    THEN tapsTable[key] ELSE bloomTaps(m, k, key)

\* bloom.add as it would be with the loop left after its first round
add_FirstTap(bf, key) ==
    [bf EXCEPT !.bits = @ \cup {tapsFor(bf.m, bf.k, key)[1]}]

\* bloom.add
add(bf, key) ==
    LET t == tapsFor(bf.m, bf.k, key)
    IN  [bf EXCEPT !.bits = @ \cup {t[i] : i \in DOMAIN t}]

\* bloom.marshal: | m | k | pad | bitsetLen | bitset |
marshal(bf) ==
    [present |-> TRUE, m |-> bf.m, k |-> bf.k, n |-> bf.n, len |-> bf.n,
     bits |-> bf.bits]

NoBloom == [present |-> FALSE, m |-> 0, k |-> 0, n |-> 0, len |-> 0, bits |-> {}]

\* the length in bytes of a Bloom region
bloomLen(r) == IF r.present THEN 12 + r.len ELSE 0

\* unmarshalBloom
unmarshalBloom(r) ==
    IF ~r.present \/ r.m = 0 \/ r.k = 0 \/ 12 + r.n # bloomLen(r) \/ r.n = 0
    THEN [ok |-> FALSE, bf |-> newBloom(0, 0)]
    ELSE [ok |-> TRUE, bf |-> [m |-> r.m, k |-> r.k, n |-> r.n, bits |-> r.bits]]

\* bloom.mayContain: "yes", "no", or "fault" when a probed bit lies outside
\* the bitset (index out of range)
RECURSIVE probe(_, _, _)
probe(bf, t, i) ==
    IF i > Len(t) THEN "yes"
    ELSE IF t[i] \div 8 >= bf.n THEN "fault"
    ELSE IF t[i] \notin bf.bits THEN "no"
    ELSE probe(bf, t, i + 1)

mayContain(bf, key) == probe(bf, tapsFor(bf.m, bf.k, key), 1)

\* the bytes of one data record
recordBytes(e) ==
    u32le(Len(e.key)) \o u32le(Len(e.value)) \o <<IF e.tomb THEN 1 ELSE 0>>
        \o e.key \o e.value

\* bf.add(e.Key) for every entry of the loop of WriteTable
addAll(bf, entries) ==
    [bf EXCEPT !.bits = @ \cup UNION {add(bf, entries[i].key).bits : i \in DOMAIN entries}]

\* the loop of WriteTable over entries[i..]: at file offset off, out the
\* record bytes and idx the index entries so far
RECURSIVE writeRecords(_, _, _, _, _)
writeRecords(entries, i, off, out, idx) ==
    IF i > Len(entries) THEN [bytes |-> out, idx |-> idx]
    ELSE LET e == entries[i]
             rb == recordBytes(e)
         IN  writeRecords(entries, i + 1, off + Len(rb), out \o rb,
                 IF (i - 1) % indexStride = 0
                 THEN Append(idx, [key |-> e.key, offset |-> off]) ELSE idx)

RECURSIVE indexBytes(_)
indexBytes(idx) ==
    IF idx = <<>> THEN <<>>
    ELSE u32le(Len(idx[1].key)) \o idx[1].key \o u64le(idx[1].offset)
             \o indexBytes(Tail(idx))

\* sstable.WriteTable: the file written for entries
WriteTable(entries) ==
    LET hdr == u32le(magic) \o u32le(Len(entries))
        w == writeRecords(entries, 1, Len(hdr), <<>>, <<>>)
        bf == addAll(newBloom(bloomBits, bloomHashes), entries)
        indexStartOffset == Len(hdr) + Len(w.bytes)
        index == u32le(Len(w.idx)) \o indexBytes(w.idx)
        bloomStartOffset == indexStartOffset + Len(index)
    IN  [data |-> hdr \o w.bytes \o index,
         bloom |-> marshal(bf),
         footer |-> u64le(indexStartOffset) \o u64le(bloomStartOffset)]

\* a file that was created (O_TRUNC) and not yet written
EmptyFile == [data |-> <<>>, bloom |-> NoBloom, footer |-> <<>>]

fileSize(f) == Len(f.data) + bloomLen(f.bloom) + Len(f.footer)

\* byte j of a Bloom region: the 12-byte head, then the bitset
bloomByte(r, j) ==
    IF j < 4 THEN u32le(r.m)[j + 1]
    ELSE IF j = 4 THEN r.k
    ELSE IF j < 8 THEN 0
    ELSE IF j < 12 THEN u32le(r.n)[j - 7]
    ELSE LET bit(p) == IF p \in r.bits THEN 1 ELSE 0
             b == 8 * (j - 12)
         IN  bit(b) + 2 * bit(b + 1) + 4 * bit(b + 2) + 8 * bit(b + 3)
               + 16 * bit(b + 4) + 32 * bit(b + 5) + 64 * bit(b + 6) + 128 * bit(b + 7)

\* the byte at file offset off
byteAt(f, off) ==
    IF off < Len(f.data) THEN f.data[off + 1]
    ELSE IF off < Len(f.data) + bloomLen(f.bloom)
    THEN bloomByte(f.bloom, off - Len(f.data))
    ELSE f.footer[off - Len(f.data) - bloomLen(f.bloom) + 1]

\* the n bytes at file offsets off .. off+n-1
readAt(f, off, n) == [i \in 1..n |-> byteAt(f, off + i - 1)]

\* binary.Read of a little-endian uint32 at file offset off; 2^31 - 1 stands
\* for every value of 2^31 or more (larger than any length or offset of the
\* model and than every limit the code compares it with)
u32At(f, off) ==
    IF byteAt(f, off + 3) >= 128 THEN 2147483647
    ELSE byteAt(f, off) + 256 * byteAt(f, off + 1) + 65536 * byteAt(f, off + 2)
            + 16777216 * byteAt(f, off + 3)

\* binary.Read of a little-endian uint64 at file offset off; -1 stands for
\* every value of 2^31 or more (larger than any offset of the model)
u64At(f, off) ==
    IF byteAt(f, off + 4) = 0 /\ byteAt(f, off + 5) = 0 /\ byteAt(f, off + 6) = 0
       /\ byteAt(f, off + 7) = 0 /\ byteAt(f, off + 3) < 128
    THEN u32At(f, off) ELSE -1

\* loadFooter
loadFooter(f) ==
    LET bad == [err |-> ErrCorruptSST, indexStartOffset |-> 0, bloomStartOffset |-> 0]
    IN  IF fileSize(f) < headerSize + footerSize
        THEN bad
        ELSE LET footerStart == fileSize(f) - footerSize
                 ix == u64At(f, footerStart)
                 bl == u64At(f, footerStart + 8)
             IN  IF ix = -1 \/ bl = -1 THEN bad
                 ELSE IF ix < headerSize \/ ix >= footerStart THEN bad
                 ELSE IF bl <= ix \/ bl >= footerStart THEN bad
                 ELSE [err |-> errNil, indexStartOffset |-> ix, bloomStartOffset |-> bl]

\* the loop of loadIndex: entry i of indexCount is read at file offset off
RECURSIVE readIndex(_, _, _, _, _, _)
readIndex(f, off, i, indexCount, indexStartOffset, out) ==
    LET bad == [err |-> ErrCorruptSST, entries |-> <<>>]
    IN  IF i = indexCount THEN [err |-> errNil, entries |-> out]
        ELSE IF off + 4 > fileSize(f) THEN bad
        ELSE LET keyLen == u32At(f, off)
             IN  IF keyLen = 0 \/ keyLen > maxIndexKeySize THEN bad
                 ELSE IF off + 4 + keyLen + 8 > fileSize(f) THEN bad
                 ELSE LET keyB == readAt(f, off + 4, keyLen)
                          recordOffset == u64At(f, off + 4 + keyLen)
                      IN  IF recordOffset < headerSize \/ recordOffset >= indexStartOffset
                          THEN bad
                          ELSE readIndex(f, off + 4 + keyLen + 8, i + 1, indexCount,
                                         indexStartOffset,
                                         Append(out, [key |-> keyB, offset |-> recordOffset]))

\* sort.SliceIsSorted(entries, key_i < key_j): no entry is less than the one before it
indexIsSorted(entries) ==
    \A i \in 2..Len(entries) : ~KeyLess(entries[i].key, entries[i - 1].key)

\* loadIndex
loadIndex(f) ==
    LET ft == loadFooter(f)
        bad == [err |-> ErrCorruptSST, entries |-> <<>>, indexStartOffset |-> 0]
    IN  IF ft.err # errNil THEN bad
        ELSE IF ft.indexStartOffset + 4 > fileSize(f) THEN bad
        ELSE LET indexCount == u32At(f, ft.indexStartOffset)
             IN  IF indexCount = 0 \/ indexCount > maxIndexCount THEN bad
                 ELSE LET r == readIndex(f, ft.indexStartOffset + 4, 0, indexCount,
                                         ft.indexStartOffset, <<>>)
                      IN  IF r.err # errNil THEN bad
                          ELSE IF ~indexIsSorted(r.entries) THEN bad
                          ELSE [err |-> errNil, entries |-> r.entries,
                                indexStartOffset |-> ft.indexStartOffset]

\* sort.Search(len(entries), entries[i].key > target): binary search on the
\* 0-based interval [i, j)
RECURSIVE searchGreater(_, _, _, _)
searchGreater(entries, target, i, j) ==
    IF i >= j THEN i
    ELSE LET h == (i + j) \div 2
         IN  IF ~KeyLess(target, entries[h + 1].key)
             THEN searchGreater(entries, target, h + 1, j)
             ELSE searchGreater(entries, target, i, h)

\* pickScanRange as it would be without stepping back from the first index
\* key greater than the target
pickScanRange_NoStepBack(entries, indexOffset, target) ==
    LET i0 == searchGreater(entries, target, 0, Len(entries))
        i == IF i0 > Len(entries) - 1 THEN Len(entries) - 1 ELSE i0
        start == entries[i + 1].offset
        next == IF i + 1 < Len(entries) THEN entries[i + 2].offset ELSE 0
    IN  [start |-> start,
         end |-> IF i + 1 < Len(entries) /\ next > start /\ next < indexOffset
                 THEN next ELSE indexOffset]

\* pickScanRange
pickScanRange(entries, indexOffset, target) ==
    LET i0 == searchGreater(entries, target, 0, Len(entries)) - 1
        i == IF i0 < 0 THEN 0 ELSE i0
        start == entries[i + 1].offset
        next == IF i + 1 < Len(entries) THEN entries[i + 2].offset ELSE 0
    IN  [start |-> start,
         end |-> IF i + 1 < Len(entries) /\ next > start /\ next < indexOffset
                 THEN next ELSE indexOffset]

GetReturn(value, res, err) == [value |-> value, res |-> res, err |-> err]

\* the scan loop of sstable.Get over the section [off, end) of the file
RECURSIVE scanFrom(_, _, _, _)
scanFrom(f, key, off, end) ==
    LET corrupt == GetReturn(<<>>, NotFound, ErrCorruptSST)
    IN  IF off + 4 > end THEN GetReturn(<<>>, NotFound, errNil)  \* EOF, ErrUnexpectedEOF
        ELSE IF off + 9 > end THEN corrupt
        ELSE LET keyLen == u32At(f, off)
                 valLen == u32At(f, off + 4)
                 tomb == byteAt(f, off + 8)
             IN  IF keyLen > end - (off + 9) \/ valLen > end - (off + 9) - keyLen
                 THEN corrupt
                 ELSE LET k == readAt(f, off + 9, keyLen)
                          valB == readAt(f, off + 9 + keyLen, valLen)
                      IN  IF k = key
                          THEN (IF tomb = 1 THEN GetReturn(<<>>, Deleted, errNil)
                                ELSE GetReturn(valB, Found, errNil))
                          ELSE IF KeyLess(key, k)
                          THEN GetReturn(<<>>, NotFound, errNil)
                          ELSE scanFrom(f, key, off + 9 + keyLen + valLen, end)

\* the check of the magic as it would be if every value passed
magicMismatch_Ignored(f) == FALSE

\* m != magic for the uint32 m read from the first four bytes
magicMismatch(f) == u32At(f, 0) # magic

errFault == "index out of range"
errShifted == "bloom region not where WriteTable put it"

\* io.ReadAll of the section [bloomStartOffset, footerStart) and
\* unmarshalBloom of its bytes.  A section that is not the region WriteTable
\* wrote is parsed from the bytes found there; shifted stands for such a
\* section passing every check of unmarshalBloom.
bloomAt(f, bloomStartOffset, footerStart) ==
    LET bad == [ok |-> FALSE, shifted |-> FALSE, bf |-> newBloom(0, 0)]
        n == footerStart - bloomStartOffset
    IN  IF bloomStartOffset = Len(f.data)
           /\ footerStart = Len(f.data) + bloomLen(f.bloom)
        THEN LET ub == unmarshalBloom(f.bloom)
             IN  [ok |-> ub.ok, shifted |-> FALSE, bf |-> ub.bf]
        ELSE IF n < 12 THEN bad
        ELSE IF u32At(f, bloomStartOffset) = 0 \/ byteAt(f, bloomStartOffset + 4) = 0
        THEN bad
        ELSE IF u32At(f, bloomStartOffset + 8) # n - 12 \/ n = 12 THEN bad
        ELSE [bad EXCEPT !.shifted = TRUE]

\* sstable.Get as it would be with the index loaded before the Bloom filter
\* is asked
SSTGet_IndexFirst(f, key) ==
    LET corrupt == GetReturn(<<>>, NotFound, ErrCorruptSST)
    IN  IF fileSize(f) < 4 THEN GetReturn(<<>>, NotFound, errIO)
        ELSE IF magicMismatch(f) THEN corrupt
        ELSE IF fileSize(f) < headerSize THEN corrupt
        ELSE LET ft == loadFooter(f)
             IN  IF ft.err # errNil THEN corrupt
                 ELSE LET ub == bloomAt(f, ft.bloomStartOffset,
                                        fileSize(f) - footerSize)
                          mc == mayContain(ub.bf, key)
                          ix == loadIndex(f)
                      IN  IF ub.shifted THEN GetReturn(<<>>, NotFound, errShifted)
                          ELSE IF ~ub.ok THEN corrupt
                          ELSE IF ix.err # errNil THEN corrupt
                          ELSE IF mc = "fault" THEN GetReturn(<<>>, NotFound, errFault)
                          ELSE IF mc = "no" THEN GetReturn(<<>>, NotFound, errNil)
                          ELSE LET rg == pickScanRange(ix.entries,
                                             ft.indexStartOffset, key)
                               IN  IF rg.end <= rg.start THEN corrupt
                                   ELSE scanFrom(f, key, rg.start, rg.end)

\* sstable.Get as it would be with the scan starting at the first record of
\* the file when the index has no more than two entries
SSTGet_ScanFromHeader(f, key) ==
    LET corrupt == GetReturn(<<>>, NotFound, ErrCorruptSST)
    IN  IF fileSize(f) < 4 THEN GetReturn(<<>>, NotFound, errIO)
        ELSE IF magicMismatch(f) THEN corrupt
        ELSE IF fileSize(f) < headerSize THEN corrupt
        ELSE LET ft == loadFooter(f)
             IN  IF ft.err # errNil THEN corrupt
                 ELSE LET ub == bloomAt(f, ft.bloomStartOffset,
                                        fileSize(f) - footerSize)
                          mc == mayContain(ub.bf, key)
                      IN  IF ub.shifted THEN GetReturn(<<>>, NotFound, errShifted)
                          ELSE IF ~ub.ok THEN corrupt
                          ELSE IF mc = "fault" THEN GetReturn(<<>>, NotFound, errFault)
                          ELSE IF mc = "no" THEN GetReturn(<<>>, NotFound, errNil)
                          ELSE LET ix == loadIndex(f)
                               IN  IF ix.err # errNil THEN corrupt
                                   ELSE LET rg == pickScanRange(ix.entries,
                                                      ft.indexStartOffset, key)
                                            from == IF Len(ix.entries) > 2
                                                    THEN rg.start ELSE headerSize
                                        IN  IF rg.end <= rg.start THEN corrupt
                                            ELSE scanFrom(f, key, from, rg.end)

\* sstable.Get on an existing file f
SSTGet(f, key) ==
    LET corrupt == GetReturn(<<>>, NotFound, ErrCorruptSST)
    IN  IF fileSize(f) < 4 THEN GetReturn(<<>>, NotFound, errIO)
        ELSE IF magicMismatch(f) THEN corrupt
        ELSE IF fileSize(f) < headerSize THEN corrupt
        ELSE LET ft == loadFooter(f)
             IN  IF ft.err # errNil THEN corrupt
                 ELSE LET ub == bloomAt(f, ft.bloomStartOffset,
                                        fileSize(f) - footerSize)
                          mc == mayContain(ub.bf, key)
                      IN  IF ub.shifted THEN GetReturn(<<>>, NotFound, errShifted)
                          ELSE IF ~ub.ok THEN corrupt
                          ELSE IF mc = "fault" THEN GetReturn(<<>>, NotFound, errFault)
                          ELSE IF mc = "no" THEN GetReturn(<<>>, NotFound, errNil)
                          ELSE LET ix == loadIndex(f)
                               IN  IF ix.err # errNil THEN corrupt
                                   ELSE LET rg == pickScanRange(ix.entries,
                                                      ft.indexStartOffset, key)
                                        IN  IF rg.end <= rg.start THEN corrupt
                                            ELSE scanFrom(f, key, rg.start, rg.end)

(***************************************************************************)
(* The sst directory: a function from base names (ASCII) to files.         *)
(***************************************************************************)
extSST == <<46, 115, 115, 116>>       \* ".sst"
extTMP == <<46, 116, 109, 112>>       \* ".tmp"

RECURSIVE decimal(_)
decimal(n) == IF n < 10 THEN <<48 + n>> ELSE decimal(n \div 10) \o <<48 + (n % 10)>>

RECURSIVE zeroPad(_, _)
zeroPad(s, width) == IF Len(s) >= width THEN s ELSE zeroPad(<<48>> \o s, width)

\* fmt.Sprintf("%06d.sst", id)
sstName(id) == zeroPad(decimal(id), 6) \o extSST

hasSuffix(s, suf) ==
    Len(s) >= Len(suf) /\ SubSeq(s, Len(s) - Len(suf) + 1, Len(s)) = suf

\* strconv.ParseUint(name, 10, 64), for values below 2^31
RECURSIVE parseDigits(_, _)
parseDigits(s, acc) ==
    IF s = <<>> THEN acc ELSE parseDigits(Tail(s), 10 * acc + (s[1] - 48))

\* parseSSTID
parseSSTID(path) ==
    LET name == IF hasSuffix(path, extSST)
                THEN SubSeq(path, 1, Len(path) - Len(extSST)) ELSE path
    IN  IF name # <<>> /\ \A i \in DOMAIN name : name[i] >= 48 /\ name[i] <= 57
        THEN [ok |-> TRUE, id |-> parseDigits(name, 0)]
        ELSE [ok |-> FALSE, id |-> 0]

\* sort.Strings
RECURSIVE sortStrings(_)
sortStrings(S) ==
    IF S = {} THEN <<>>
    ELSE LET least == CHOOSE s \in S : \A t \in S \ {s} : KeyLess(s, t)
         IN  <<least>> \o sortStrings(S \ {least})

\* reverse as it would be with the newest-first reversal left out
reverse_Ascending(s) == s

reverse(s) == [i \in 1..Len(s) |-> s[Len(s) + 1 - i]]

RECURSIVE maxParsedID(_, _)
maxParsedID(list, maxID) ==
    IF list = <<>> THEN maxID
    ELSE LET r == parseSSTID(list[1])
         IN  maxParsedID(Tail(list), IF r.ok /\ r.id > maxID THEN r.id ELSE maxID)

ErrBadPattern == "syntax error in pattern"

\* filepath.Join(sstDir, "*.sst") for sstDir = filepath.Join(dir, "sst")
globPattern(dir) == dir \o <<47, 115, 115, 116, 47, 42>> \o extSST

\* filepath.Glob checks the pattern first (Match(pattern, "")): a '[' that
\* no later ']' closes is malformed
badPattern(pattern) ==
    \E i \in DOMAIN pattern :
        /\ pattern[i] = 91
        /\ \A j \in DOMAIN pattern : j > i => pattern[j] # 93

\* scanSSTables of the directory at path sstPath holding the files files:
\* the *.sst names newest first, and the next id
scanSSTables(sstPath, files) ==
    IF badPattern(globPattern(sstPath))
    THEN [err |-> ErrBadPattern, paths |-> <<>>, nextID |-> 1]
    ELSE LET list == sortStrings({p \in DOMAIN files : hasSuffix(p, extSST)})
         IN  [err |-> errNil, paths |-> reverse(list), nextID |-> maxParsedID(list, 0) + 1]

\* dir with file written (created or replaced) at name
writeFile(dir, name, file) ==
    [p \in DOMAIN dir \cup {name} |-> IF p = name THEN file ELSE dir[p]]

\* os.Remove
removeFile(dir, name) == [p \in DOMAIN dir \ {name} |-> dir[p]]

\* os.Rename(from, to): to is replaced if it exists
renameFile(dir, from, to) == removeFile(writeFile(dir, to, dir[from]), from)

(***************************************************************************)
(* DB.Get.                                                                 *)
(***************************************************************************)
Present(value) == [ok |-> TRUE, value |-> value]
Absent == [ok |-> FALSE, value |-> <<>>]

\* the walk as it would be if a Deleted result did not stop it
RECURSIVE walkSSTables_PastDeleted(_, _, _)
walkSSTables_PastDeleted(stack, dir, key) ==
    IF stack = <<>> THEN Absent
    ELSE IF stack[1] \notin DOMAIN dir THEN Absent
    ELSE LET r == SSTGet(dir[stack[1]], key)
         IN  IF r.err # errNil THEN Absent
             ELSE IF r.res = Found THEN Present(r.value)
             ELSE walkSSTables_PastDeleted(Tail(stack), dir, key)

\* the walk over the SSTable stack, newest first
RECURSIVE walkSSTables(_, _, _)
walkSSTables(stack, dir, key) ==
    IF stack = <<>> THEN Absent
    ELSE IF stack[1] \notin DOMAIN dir THEN Absent        \* os.Open fails
    ELSE LET r == SSTGet(dir[stack[1]], key)
         IN  IF r.err # errNil THEN Absent
             ELSE IF r.res = Found THEN Present(r.value)
             ELSE IF r.res = Deleted THEN Absent
             ELSE walkSSTables(Tail(stack), dir, key)

\* DB.Get as it would be if a memtable tombstone fell through to the SSTables
Get_TombstoneFallsThrough(m, stack, dir, key) ==
    LET r == GetAll(m, key)
    IN  IF r.ok /\ ~r.entry.tomb
        THEN Present(r.entry.value)
        ELSE walkSSTables(stack, dir, key)

\* DB.Get on an engine with memtable m and stack over the directory dir
Get(m, stack, dir, key) ==
    LET r == GetAll(m, key)
    IN  IF r.ok
        THEN (IF r.entry.tomb THEN Absent ELSE Present(r.entry.value))
        ELSE walkSSTables(stack, dir, key)

(***************************************************************************)
(* The engine (DB).                                                        *)
(*                                                                         *)
(* Program state:  pc        position of the engine                        *)
(*                 mem       d.mem                                         *)
(*                 wal       d.wal: is its file open, is its bufio.Writer  *)
(*                           in the (sticky) error state                   *)
(*                 walFile   the bytes of <dir>/forge.wal                  *)
(*                 sstDir    the files of <dir>/sst                        *)
(*                 sstables  d.sstables, newest first                      *)
(*                 nextID    d.nextID                                      *)
(*                 call      the locals of the call in progress            *)
(* History:        acked     per key, the result of the last write that was*)
(*                           acknowledged, or was in the WAL at a crash    *)
(*                 last      the last call that returned, and its error    *)
(*                 pre       mem, walFile, sstDir, sstables at the start   *)
(*                           of the call in progress or that just failed   *)
(*                 recov     how the process last went down: acked before  *)
(*                           it, the call in flight, and at Close d.mem    *)
(*                           and d.sstables                                *)
(*                 failed    some call has returned an error               *)
(*                 budget    how many calls and events so far              *)
(* The directory:  dbDir     the path handed to Open (d.dir)               *)
(***************************************************************************)
VARIABLES pc, mem, wal, walFile, sstDir, sstables, nextID, call,
          acked, last, pre, recov, failed, budget, dbDir

(***************************************************************************)
(* The packages below the engine, driven on their own (as the package      *)
(* tests drive them):                                                      *)
(*                 tbl       the entries handed to sstable.WriteTable      *)
(*                 file      the SSTable file under test                   *)
(*                 patch     what was done to the file after WriteTable    *)
(*                 target    the key handed to sstable.Get                 *)
(*                 res       what sstable.Get returned                     *)
(*                 log       the Append calls made on the WAL under test   *)
(*                 replayed  what wal.Replay returned                      *)
(***************************************************************************)
VARIABLES tbl, file, patch, target, res, log, replayed

(***************************************************************************)
(* The memtable with its byte slices as Go holds them:                     *)
(*                 heap      the backing arrays, by address                *)
(*                 mtab      the memtable; the value of an entry is the    *)
(*                           address of its backing array                  *)
(*                 bufs      the slices the caller holds: the buffers it   *)
(*                           handed to Put and the slices returned to it   *)
(*                 stored    the entries by content, as put and deleted    *)
(***************************************************************************)
VARIABLES heap, mtab, bufs, stored

memVars == <<heap, mtab, bufs, stored>>

(***************************************************************************)
(* One WAL shared by several goroutines:                                   *)
(*                 mu        w.mu: the goroutine holding it, 0 when free   *)
(*                 writers   per goroutine, its Append call and the place  *)
(*                           it has reached in it                          *)
(*                 wbuf      the bytes held by w.buf (bufio.Writer)        *)
(*                 wfile     the bytes of the file under w.f               *)
(*                 order     the goroutines in the order they took w.mu    *)
(* wbuf and wfile are sequences of extents of the records being appended.  *)
(***************************************************************************)
VARIABLES mu, writers, wbuf, wfile, order

concVars == <<mu, writers, wbuf, wfile, order>>

(***************************************************************************)
(* The skip list of a memtable with its nodes and forward pointers:        *)
(*                 skip      the SkipList: its nodes (the head first) and  *)
(*                           its level                                     *)
(*                 wrote     per key, the last Put or Delete made for it   *)
(*                 got       what the last Get, Range or RangeAll returned *)
(***************************************************************************)
VARIABLES skip, wrote, got

skipVars == <<skip, wrote, got>>

\* the variables that no step of the engine, of the sstable package and of
\* the wal package changes
moreVars == <<dbDir, memVars, concVars, skipVars>>

vars == <<pc, mem, wal, walFile, sstDir, sstables, nextID, call,
          acked, last, pre, recov, failed, budget, tbl, file, patch, target, res,
          log, replayed, moreVars>>

libVars == <<tbl, file, patch, target, res, log, replayed, moreVars>>
engineVars == <<mem, wal, walFile, sstDir, sstables, nextID, call,
                acked, last, pre, recov, failed, budget>>

NoResult == [value |-> <<>>, res |-> "none", err |-> "none"]
NoReplay == [err |-> "none", records |-> <<>>]
NoPatch == [kind |-> "none", pos |-> 0, junk |-> <<>>]

NoCall == [op |-> "none", key |-> <<>>, value |-> <<>>, entries |-> <<>>, path |-> <<>>]
NoRecov == [kind |-> "none", expect |-> [k \in Keys |-> Absent], inflight |-> NoCall,
            mem |-> <<>>, sstables |-> <<>>]
WalOpened == [open |-> TRUE, err |-> FALSE]
WalGone == [open |-> FALSE, err |-> FALSE]

Snapshot == [mem |-> mem, walFile |-> walFile, sstDir |-> sstDir, sstables |-> sstables,
             nextID |-> nextID]
NoSnapshot == [mem |-> <<>>, walFile |-> <<>>, sstDir |-> <<>>, sstables |-> <<>>,
               nextID |-> 0]

\* DB.Get(key) in the current state
DBGet(key) == Get(mem, sstables, sstDir, key)

Returned(op, err) == [op |-> op, err |-> err]

\* the prefixes of a record that a failing write leaves in the file
TornCuts(b) == {0, 4}

\* the engine right after Open on a fresh directory
EngineFresh ==
    /\ mem = NewMemTable
    /\ wal = WalOpened
    /\ walFile = <<>>
    /\ sstDir = <<>>
    /\ sstables = <<>>
    /\ nextID = 1
    /\ call = NoCall
    /\ acked = [k \in Keys |-> Absent]
    /\ last = Returned("Open", errNil)
    /\ pre = NoSnapshot
    /\ recov = NoRecov
    /\ failed = FALSE
    /\ budget = [ops |-> 0, flushes |-> 0, events |-> 0]

\* no slice allocated, nothing put
MemFresh ==
    /\ heap = <<>>
    /\ mtab = NewMemTable
    /\ bufs = {}
    /\ stored = NewMemTable

\* a directory path without pattern characters ("db")
DefaultDir == <<100, 98>>

\* no goroutine has called the shared WAL
ConcFresh ==
    /\ mu = 0
    /\ writers = <<>>
    /\ wbuf = <<>> /\ wfile = <<>> /\ order = <<>>

\* an empty skip list, nothing written to it, nothing asked of it
NoAnswer == [op |-> "none", key |-> <<>>, end |-> <<>>, ok |-> FALSE, out |-> <<>>]
SkipFresh ==
    /\ skip = NewSkipList
    /\ wrote = {}
    /\ got = NoAnswer

\* the default directory, and the packages driven on their own before
\* anything was done with them
MoreFresh == dbDir = DefaultDir /\ MemFresh /\ ConcFresh /\ SkipFresh

Init ==
    /\ pc = "idle"
    /\ EngineFresh
    /\ tbl = <<>> /\ file = EmptyFile /\ patch = NoPatch
    /\ target = <<>> /\ res = NoResult /\ log = <<>> /\ replayed = NoReplay
    /\ MoreFresh

(***************************************************************************)
(* WAL.AppendPut / WAL.AppendDelete with record bytes b.  The record goes  *)
(* through the bufio.Writer and buf.Flush() writes it to the file.         *)
(***************************************************************************)
\* the append as it would be without buf.Flush(): the record stays in the
\* buffer
AppendOK_Unflushed(b) ==
    /\ wal.open /\ ~wal.err
    /\ UNCHANGED <<wal, walFile>>

\* the append succeeds: the whole record is in the file
AppendOK(b) ==
    /\ wal.open /\ ~wal.err
    /\ walFile' = walFile \o b
    /\ UNCHANGED wal

\* the append returns an error: the writer is already in its error state,
\* or the file is closed, or the write fails after a prefix of the record
AppendErr(b) ==
    \/ /\ wal.err
       /\ budget' = [budget EXCEPT !.ops = @ + 1]
       /\ UNCHANGED <<wal, walFile>>
    \/ /\ ~wal.err /\ ~wal.open
       /\ wal' = [wal EXCEPT !.err = TRUE]
       /\ budget' = [budget EXCEPT !.ops = @ + 1]
       /\ UNCHANGED walFile
    \/ /\ ~wal.err /\ wal.open
       /\ budget.events < MaxEvents
       /\ \E n \in TornCuts(b) : walFile' = walFile \o SubSeq(b, 1, n)
       /\ wal' = [wal EXCEPT !.err = TRUE]
       /\ budget' = [budget EXCEPT !.events = @ + 1, !.ops = @ + 1]

\* DB.Put as it would be without the early return on the append's error
memAfterPut_Unconditional(m, appendFailed, key, value) == MemPut(m, key, value)

\* the memtable DB.Put leaves, given whether the WAL append failed
memAfterPut(m, appendFailed, key, value) ==
    IF appendFailed THEN m ELSE MemPut(m, key, value)

\* the memtable DB.Delete leaves, given whether the WAL append failed
memAfterDelete(m, appendFailed, key) ==
    IF appendFailed THEN m ELSE MemDelete(m, key)

(***************************************************************************)
(* DB.Put                                                                  *)
(***************************************************************************)
PutAppend(key, value) ==
    /\ pc = "idle" /\ budget.ops < MaxOps
    /\ AppendOK(putBytes(key, value))
    /\ pc' = "put_appended"
    /\ call' = [NoCall EXCEPT !.op = "Put", !.key = key, !.value = value]
    /\ pre' = Snapshot
    /\ recov' = NoRecov
    /\ budget' = [budget EXCEPT !.ops = @ + 1]
    /\ UNCHANGED <<mem, sstDir, sstables, nextID, acked, last, failed>>
    /\ UNCHANGED libVars

PutApply ==
    /\ pc = "put_appended" /\ call.op = "Put"
    /\ mem' = memAfterPut(mem, FALSE, call.key, call.value)
    /\ acked' = [acked EXCEPT ![call.key] = Present(call.value)]
    /\ last' = Returned("Put", errNil)
    /\ pc' = "idle"
    /\ call' = NoCall
    /\ pre' = NoSnapshot
    /\ UNCHANGED <<wal, walFile, sstDir, sstables, nextID, recov, failed, budget>>
    /\ UNCHANGED libVars

PutFails(key, value) ==
    /\ pc = "idle" /\ budget.ops < MaxOps
    /\ AppendErr(putBytes(key, value))
    /\ mem' = memAfterPut(mem, TRUE, key, value)
    /\ last' = Returned("Put", errIO)
    /\ pre' = Snapshot
    /\ recov' = NoRecov
    /\ failed' = TRUE
    /\ UNCHANGED <<pc, sstDir, sstables, nextID, call, acked>>
    /\ UNCHANGED libVars

(***************************************************************************)
(* DB.Delete                                                               *)
(***************************************************************************)
DeleteAppend(key) ==
    /\ pc = "idle" /\ budget.ops < MaxOps
    /\ AppendOK(deleteBytes(key))
    /\ pc' = "delete_appended"
    /\ call' = [NoCall EXCEPT !.op = "Delete", !.key = key]
    /\ pre' = Snapshot
    /\ recov' = NoRecov
    /\ budget' = [budget EXCEPT !.ops = @ + 1]
    /\ UNCHANGED <<mem, sstDir, sstables, nextID, acked, last, failed>>
    /\ UNCHANGED libVars

DeleteApply ==
    /\ pc = "delete_appended" /\ call.op = "Delete"
    /\ mem' = memAfterDelete(mem, FALSE, call.key)
    /\ acked' = [acked EXCEPT ![call.key] = Absent]
    /\ last' = Returned("Delete", errNil)
    /\ pc' = "idle"
    /\ call' = NoCall
    /\ pre' = NoSnapshot
    /\ UNCHANGED <<wal, walFile, sstDir, sstables, nextID, recov, failed, budget>>
    /\ UNCHANGED libVars

DeleteFails(key) ==
    /\ pc = "idle" /\ budget.ops < MaxOps
    /\ AppendErr(deleteBytes(key))
    /\ mem' = memAfterDelete(mem, TRUE, key)
    /\ last' = Returned("Delete", errIO)
    /\ pre' = Snapshot
    /\ recov' = NoRecov
    /\ failed' = TRUE
    /\ UNCHANGED <<pc, sstDir, sstables, nextID, call, acked>>
    /\ UNCHANGED libVars

(***************************************************************************)
(* DB.Flush, one action per step; every step that can return an error has  *)
(* a failing twin.                                                         *)
(***************************************************************************)
tmpOf(path) == path \o extTMP

\* what every failing return of Flush records
FlushReturnsErr ==
    /\ pc' = "idle"
    /\ call' = NoCall
    /\ last' = Returned("Flush", errIO)
    /\ failed' = TRUE
    /\ budget' = [budget EXCEPT !.events = @ + 1]

\* Flush as it would be without the early return: the table of no entries
\* is written and published
FlushEmpty_WritesTable ==
    /\ pc = "idle"
    /\ RangeAll(mem, <<>>, <<>>) = <<>>
    /\ last' = Returned("Flush", errNil)
    /\ pre' = Snapshot
    /\ recov' = NoRecov
    /\ sstDir' = writeFile(sstDir, sstName(nextID), WriteTable(<<>>))
    /\ sstables' = <<sstName(nextID)>> \o sstables
    /\ nextID' = nextID + 1
    /\ UNCHANGED <<pc, mem, wal, walFile, call, acked, failed, budget>>
    /\ UNCHANGED libVars

\* len(entries) == 0: return nil
FlushEmpty ==
    /\ pc = "idle"
    /\ RangeAll(mem, <<>>, <<>>) = <<>>
    /\ last' = Returned("Flush", errNil)
    /\ pre' = Snapshot
    /\ recov' = NoRecov
    /\ UNCHANGED <<pc, mem, wal, walFile, sstDir, sstables, nextID, call, acked,
                   failed, budget>>
    /\ UNCHANGED libVars

\* WriteTable: os.OpenFile(tmp, O_CREATE|O_RDWR|O_TRUNC)
FlushCreateTmp ==
    /\ pc = "idle" /\ budget.flushes < MaxFlush
    /\ RangeAll(mem, <<>>, <<>>) # <<>>
    /\ call' = [NoCall EXCEPT !.op = "Flush", !.entries = RangeAll(mem, <<>>, <<>>),
                              !.path = sstName(nextID)]
    /\ sstDir' = writeFile(sstDir, tmpOf(sstName(nextID)), EmptyFile)
    /\ pc' = "flush_created"
    /\ pre' = Snapshot
    /\ recov' = NoRecov
    /\ budget' = [budget EXCEPT !.flushes = @ + 1]
    /\ UNCHANGED <<mem, wal, walFile, sstables, nextID, acked, last, failed>>
    /\ UNCHANGED libVars

\* Flush as it would be if the WAL were emptied while the table is written,
\* before the rename
FlushWriteTmp_TruncatesWal ==
    /\ pc = "flush_created"
    /\ sstDir' = writeFile(sstDir, tmpOf(call.path), WriteTable(call.entries))
    /\ walFile' = <<>>
    /\ pc' = "flush_written"
    /\ UNCHANGED <<mem, wal, sstables, nextID, call, acked, last, pre,
                   recov, failed, budget>>
    /\ UNCHANGED libVars

\* WriteTable: the records, index, filter and footer reach the file at w.Flush()
FlushWriteTmp ==
    /\ pc = "flush_created"
    /\ sstDir' = writeFile(sstDir, tmpOf(call.path), WriteTable(call.entries))
    /\ pc' = "flush_written"
    /\ UNCHANGED <<mem, wal, walFile, sstables, nextID, call, acked, last, pre,
                   recov, failed, budget>>
    /\ UNCHANGED libVars

\* WriteTable returns an error: os.Remove(tmp); return err
FlushWriteTmpFails ==
    /\ pc = "flush_created" /\ budget.events < MaxEvents
    /\ sstDir' = removeFile(sstDir, tmpOf(call.path))
    /\ FlushReturnsErr
    /\ UNCHANGED <<mem, wal, walFile, sstables, nextID, acked, pre, recov>>
    /\ UNCHANGED libVars

\* os.Rename(tmp, path)
FlushRename ==
    /\ pc = "flush_written"
    /\ sstDir' = renameFile(sstDir, tmpOf(call.path), call.path)
    /\ pc' = "flush_renamed"
    /\ UNCHANGED <<mem, wal, walFile, sstables, nextID, call, acked, last, pre,
                   recov, failed, budget>>
    /\ UNCHANGED libVars

\* os.Rename returns an error: os.Remove(tmp); return err
FlushRenameFails ==
    /\ pc = "flush_written" /\ budget.events < MaxEvents
    /\ sstDir' = removeFile(sstDir, tmpOf(call.path))
    /\ FlushReturnsErr
    /\ UNCHANGED <<mem, wal, walFile, sstables, nextID, acked, pre, recov>>
    /\ UNCHANGED libVars

\* Flush as it would be without d.nextID++
FlushReset_KeepsID ==
    /\ pc = "flush_renamed"
    /\ sstables' = <<call.path>> \o sstables
    /\ mem' = NewMemTable
    /\ pc' = "flush_reset"
    /\ UNCHANGED <<wal, walFile, sstDir, nextID, call, acked, last, pre, recov, failed,
                   budget>>
    /\ UNCHANGED libVars

\* d.sstables = append([]string{path}, d.sstables...); d.nextID++;
\* d.mem = memtable.NewMemTable()
FlushReset ==
    /\ pc = "flush_renamed"
    /\ sstables' = <<call.path>> \o sstables
    /\ nextID' = nextID + 1
    /\ mem' = NewMemTable
    /\ pc' = "flush_reset"
    /\ UNCHANGED <<wal, walFile, sstDir, call, acked, last, pre, recov, failed, budget>>
    /\ UNCHANGED libVars

\* d.wal.Close()
FlushWalClose ==
    /\ pc = "flush_reset"
    /\ wal.open
    /\ wal' = [wal EXCEPT !.open = FALSE]
    /\ pc' = "flush_wal_closed"
    /\ UNCHANGED <<mem, walFile, sstDir, sstables, nextID, call, acked, last, pre,
                   recov, failed, budget>>
    /\ UNCHANGED libVars

\* d.wal.Close() returns an error: return err
FlushWalCloseFails ==
    /\ pc = "flush_reset" /\ budget.events < MaxEvents
    /\ wal' = [wal EXCEPT !.open = FALSE]
    /\ FlushReturnsErr
    /\ UNCHANGED <<mem, walFile, sstDir, sstables, nextID, acked, pre, recov>>
    /\ UNCHANGED libVars

\* os.WriteFile(d.walPath, nil, 0o644)
FlushWalTruncate ==
    /\ pc = "flush_wal_closed"
    /\ walFile' = <<>>
    /\ pc' = "flush_wal_truncated"
    /\ UNCHANGED <<mem, wal, sstDir, sstables, nextID, call, acked, last, pre,
                   recov, failed, budget>>
    /\ UNCHANGED libVars

\* os.WriteFile returns an error (the open fails, or the close after the
\* truncation): return err
FlushWalTruncateFails ==
    /\ pc = "flush_wal_closed" /\ budget.events < MaxEvents
    /\ walFile' \in {walFile, <<>>}
    /\ FlushReturnsErr
    /\ UNCHANGED <<mem, wal, sstDir, sstables, nextID, acked, pre, recov>>
    /\ UNCHANGED libVars

\* wal.Open(d.walPath); d.wal = w; return nil
FlushWalOpen ==
    /\ pc = "flush_wal_truncated"
    /\ wal' = WalOpened
    /\ pc' = "idle"
    /\ call' = NoCall
    /\ last' = Returned("Flush", errNil)
    /\ pre' = NoSnapshot
    /\ UNCHANGED <<mem, walFile, sstDir, sstables, nextID, acked, recov,
                   failed, budget>>
    /\ UNCHANGED libVars

\* wal.Open returns an error: return err
FlushWalOpenFails ==
    /\ pc = "flush_wal_truncated" /\ budget.events < MaxEvents
    /\ FlushReturnsErr
    /\ UNCHANGED <<mem, wal, walFile, sstDir, sstables, nextID, acked, pre, recov>>
    /\ UNCHANGED libVars

(***************************************************************************)
(* DB.Close, a crash of the process, and Open.                             *)
(***************************************************************************)
\* the process is gone: nothing of the engine's memory is left
ProcessDown ==
    /\ pc' = "down"
    /\ mem' = NewMemTable
    /\ wal' = WalGone
    /\ sstables' = <<>>
    /\ nextID' = 0
    /\ call' = NoCall
    /\ pre' = NoSnapshot
    /\ budget' = [budget EXCEPT !.events = @ + 1]
    /\ UNCHANGED <<walFile, sstDir, last, failed>>

\* DB.Close between two calls
Close ==
    /\ pc = "idle" /\ budget.events < MaxEvents
    /\ recov' = [NoRecov EXCEPT !.kind = "close", !.expect = acked,
                                 !.mem = mem, !.sstables = sstables]
    /\ UNCHANGED acked
    /\ ProcessDown
    /\ UNCHANGED libVars

\* the process stops at a step boundary of a call, or between two calls
Crash ==
    /\ pc # "down" /\ budget.events < MaxEvents
    /\ recov' = [NoRecov EXCEPT !.kind = "crash", !.expect = acked, !.inflight = call]
    /\ acked' = IF pc = "put_appended"
                THEN [acked EXCEPT ![call.key] = Present(call.value)]
                ELSE IF pc = "delete_appended"
                THEN [acked EXCEPT ![call.key] = Absent]
                ELSE acked
    /\ ProcessDown
    /\ UNCHANGED libVars

\* the process stops inside WAL.AppendPut/AppendDelete while buf.Flush() is
\* writing the record bytes b: a proper prefix of the record is in the file
\* and the call never returns
CrashInAppend(b) ==
    /\ pc = "idle" /\ budget.events < MaxEvents
    /\ wal.open /\ ~wal.err
    /\ \E n \in TornCuts(b) \ {0} : walFile' = walFile \o SubSeq(b, 1, n)
    /\ recov' = [NoRecov EXCEPT !.kind = "torn", !.expect = acked]
    /\ UNCHANGED acked
    /\ pc' = "down"
    /\ mem' = NewMemTable
    /\ wal' = WalGone
    /\ sstables' = <<>>
    /\ nextID' = 0
    /\ call' = NoCall
    /\ pre' = NoSnapshot
    /\ budget' = [budget EXCEPT !.events = @ + 1]
    /\ UNCHANGED <<sstDir, last, failed>>
    /\ UNCHANGED libVars

\* the failure exits of Open as they would be without w.Close()
OpenFails_KeepsHandle(err) ==
    /\ last' = Returned("Open", err)
    /\ failed' = TRUE
    /\ wal' = WalOpened
    /\ UNCHANGED <<pc, mem, sstables, nextID>>

\* the failure exits of Open after wal.Open: _ = w.Close(); return nil, err
OpenFails(err) ==
    /\ last' = Returned("Open", err)
    /\ failed' = TRUE
    /\ wal' = WalGone
    /\ UNCHANGED <<pc, mem, sstables, nextID>>

\* db.Open on the directory.  wal.Open creates the WAL file when there is
\* none; a file that is not there and an empty file are both <<>>.
Open ==
    /\ pc = "down"
    /\ LET r == ReplayPath(TRUE, walFile)
           m == applyRecords(NewMemTable, r.records)
           sc == scanSSTables(dbDir \o <<47, 115, 115, 116>>, sstDir)
       IN  IF r.err # errNil THEN OpenFails(r.err)
           ELSE IF sc.err # errNil THEN OpenFails(sc.err)
           ELSE /\ last' = Returned("Open", errNil)
                /\ pc' = "idle"
                /\ mem' = m
                /\ wal' = WalOpened
                /\ sstables' = sc.paths
                /\ nextID' = sc.nextID
                /\ UNCHANGED failed
    /\ UNCHANGED <<walFile, sstDir, call, acked, pre, recov, budget>>
    /\ UNCHANGED libVars

Next ==
    \/ \E key \in Keys, value \in Values : PutAppend(key, value)
    \/ PutApply
    \/ \E key \in Keys, value \in Values : PutFails(key, value)
    \/ \E key \in Keys : DeleteAppend(key)
    \/ DeleteApply
    \/ \E key \in Keys : DeleteFails(key)
    \/ FlushEmpty
    \/ FlushCreateTmp
    \/ FlushWriteTmp
    \/ FlushWriteTmpFails
    \/ FlushRename
    \/ FlushRenameFails
    \/ FlushReset
    \/ FlushWalClose
    \/ FlushWalCloseFails
    \/ FlushWalTruncate
    \/ FlushWalTruncateFails
    \/ FlushWalOpen
    \/ FlushWalOpenFails
    \/ Close
    \/ Crash
    \/ \E key \in Keys, value \in Values : CrashInAppend(putBytes(key, value))
    \/ \E key \in Keys : CrashInAppend(deleteBytes(key))
    \/ Open

Spec == Init /\ [][Next]_vars


(***************************************************************************)
(* Properties.                                                             *)
(***************************************************************************)
\* the records Replay reads from the WAL file, and the memtable they build
walRecords == ReplayPath(TRUE, walFile).records
memOf(records) == applyRecords(NewMemTable, records)
allButLast(s) == IF s = <<>> THEN s ELSE SubSeq(s, 1, Len(s) - 1)

\* the places of a call, by operation
writePcs == {"put_appended", "delete_appended"}
flushPcs == {"flush_created", "flush_written", "flush_renamed", "flush_reset",
             "flush_wal_closed", "flush_wal_truncated"}

\* C1: in one process, after any sequence of successful Put, Delete and Flush
\* calls, Get(k) returns the value of the most recent Put(k), or not-present
\* when the most recent write to k is a Delete or k was never written.
C1_GetReturnsLastWrite ==
    (pc = "idle" /\ budget.events = 0) =>
        \A k \in Keys : DBGet(k) = acked[k]

\* what a call in flight at a crash makes of key k if it became visible
inflightResult(k) ==
    IF recov.inflight.op = "Put" /\ recov.inflight.key = k
    THEN {Present(recov.inflight.value)}
    ELSE IF recov.inflight.op = "Delete" /\ recov.inflight.key = k
    THEN {Absent}
    ELSE {}

\* C2: after a crash at any step boundary of Put, Delete or Flush, Open
\* succeeds, Get(k) returns the last write to k acknowledged before the crash
\* (or the write in flight), and no .sst.tmp file is in the SSTable stack.
C2_CrashRecovery ==
    (recov.kind = "crash" /\ ~failed) =>
        /\ pc = "down" => ReplayPath(TRUE, walFile).err = errNil
        /\ pc = "idle" =>
            /\ \A k \in Keys : DBGet(k) \in {recov.expect[k]} \cup inflightResult(k)
            /\ \A i \in DOMAIN sstables : ~hasSuffix(sstables[i], extTMP)


\* the state is the one right after a Close and a successful Open
Reopened == pc = "idle" /\ recov.kind = "close" /\ last = Returned("Open", errNil)

\* C3: after successful Put, Delete and Flush calls, Close and Open on the
\* same directory, Open succeeds and Get(k) equals Get(k) just before the
\* Close for every key; the reopened engine has the memtable and the stack it
\* had at the Close, so closing and opening again changes nothing.
C3_CloseOpenPreservesGet ==
    (recov.kind = "close" /\ ~failed) =>
        /\ pc = "down" => ReplayPath(TRUE, walFile).err = errNil
        /\ Reopened =>
            /\ \A k \in Keys : DBGet(k) = Get(recov.mem, recov.sstables, sstDir, k)
            /\ mem = recov.mem
            /\ sstables = recov.sstables

\* a reopened engine with one key whose latest write is only in the WAL and
\* another whose latest write is in an SSTable
C3_Witness ==
    /\ Reopened /\ ~failed
    /\ \E k \in Keys : GetAll(mem, k).ok
    /\ \E k \in Keys : ~GetAll(mem, k).ok /\ DBGet(k).ok

\* what the SSTable at position i of the stack says about key k
tableResult(i, k) ==
    IF sstables[i] \in DOMAIN sstDir
    THEN SSTGet(sstDir[sstables[i]], k)
    ELSE GetReturn(<<>>, NotFound, errIO)

\* the newest SSTable holds a tombstone for k, an older one a value, and the
\* memtable nothing
tombstoneShadows(k) ==
    /\ pc = "idle"
    /\ Len(sstables) >= 2
    /\ ~GetAll(mem, k).ok
    /\ tableResult(1, k).res = Deleted
    /\ \E i \in 2..Len(sstables) : tableResult(i, k).res = Found

\* C4: when k has a value in an older SSTable and Delete(k) followed by Flush
\* produced a newer SSTable, Get(k) returns not-present, in the same process
\* and after Close and reopen.
C4_TombstoneShadowsOlderTable ==
    \A k \in Keys : tombstoneShadows(k) => DBGet(k) = Absent

\* the case in the process that wrote the tables
C4_Witness ==
    /\ budget.events = 0
    /\ \E k \in Keys : tombstoneShadows(k) /\ acked[k] = Absent

\* the case after Close and reopen
C4_WitnessReopened == Reopened /\ \E k \in Keys : tombstoneShadows(k)

\* the memtable holds a tombstone for k
memTombstone(k) == GetAll(mem, k).ok /\ GetAll(mem, k).entry.tomb

\* C5: whenever the memtable holds a tombstone for k, Get(k) returns
\* not-present, whatever the SSTable stack holds for k.
C5_MemTombstoneWins ==
    \A k \in Keys : (pc # "down" /\ memTombstone(k)) => DBGet(k) = Absent

\* Put(k,v); Flush; Delete(k): tombstone in the memtable, value in the stack
C5_Witness ==
    /\ pc = "idle"
    /\ \E k \in Keys :
          /\ memTombstone(k)
          /\ sstables # <<>>
          /\ tableResult(1, k).res = Found


\* the SSTable of the Flush in progress is in the directory under its final name
published ==
    /\ call.path \in DOMAIN sstDir
    /\ sstDir[call.path] = WriteTable(call.entries)

\* entry e is what replaying the WAL file leaves for its key
inWal(e) ==
    LET r == Search(memOf(walRecords), e.key)
    IN  r.ok /\ r.entry = e

\* C6: in a Flush of a non-empty memtable the SSTable is published by rename,
\* then the path is prepended to the stack and the memtable replaced by an
\* empty one, then the WAL is truncated; at every step of the Flush the WAL
\* file is as it was when the Flush began or the SSTable is published, and
\* (while no earlier call has failed) each flushed entry is what the WAL file
\* replays to for its key or is in the published SSTable.
C6_FlushOrder ==
    pc \in flushPcs =>
        /\ pc \in {"flush_created", "flush_written"} => call.path \notin DOMAIN sstDir
        /\ pc \in {"flush_created", "flush_written", "flush_renamed"} =>
              mem = pre.mem /\ sstables = pre.sstables /\ walFile = pre.walFile
        /\ pc \in {"flush_renamed", "flush_reset", "flush_wal_closed",
                   "flush_wal_truncated"} => published
        /\ pc \in {"flush_reset", "flush_wal_closed", "flush_wal_truncated"} =>
              mem = NewMemTable /\ sstables = <<call.path>> \o pre.sstables
        /\ pc \in {"flush_reset", "flush_wal_closed"} => walFile = pre.walFile
        /\ pc = "flush_wal_truncated" => walFile = <<>>
        /\ walFile = pre.walFile \/ published
        /\ ~failed =>
              \A i \in DOMAIN call.entries : inWal(call.entries[i]) \/ published

\* the second Flush of a run has truncated the WAL: its entries are only in
\* the published SSTable
C6_Witness ==
    /\ pc = "flush_wal_truncated"
    /\ Len(sstables) = 2
    /\ pre.walFile # <<>>
    /\ \E i \in DOMAIN call.entries : ~inWal(call.entries[i])

\* Put or Delete has just returned the error of the WAL append
appendFailed == pc = "idle" /\ last.op \in {"Put", "Delete"} /\ last.err # errNil

\* C7: when the WAL append inside Put or Delete returns an error, the call
\* returns it, the memtable is as before the call and Get is unchanged for
\* every key.
C7_FailedAppendLeavesMemtable ==
    appendFailed =>
        /\ mem = pre.mem
        /\ sstables = pre.sstables /\ sstDir = pre.sstDir
        /\ \A k \in Keys : DBGet(k) = Get(pre.mem, pre.sstables, pre.sstDir, k)

\* a failed Put that left bytes in the WAL file of an engine holding data
C7_Witness ==
    /\ appendFailed /\ last.op = "Put"
    /\ walFile # pre.walFile
    /\ \E k \in Keys : DBGet(k).ok

\* the engine is running and no call has returned an error
Healthy == ~failed /\ pc # "down"

flushFailed == pc = "idle" /\ last = Returned("Flush", errIO)

\* C9: whenever Flush returns an error the temp file has been removed and the
\* memtable, the WAL contents and the SSTable stack are as before the call.
C9_FailedFlushLeavesState ==
    flushFailed =>
        /\ \A p \in DOMAIN sstDir : ~hasSuffix(p, extTMP)
        /\ mem = pre.mem
        /\ walFile = pre.walFile
        /\ sstables = pre.sstables

\* C10: after every Flush that returns success, replaying the WAL file yields
\* no records, also when the Flush is a retry after a failed one.
C10_WalEmptyAfterFlush ==
    (pc = "idle" /\ last = Returned("Flush", errNil)) => walRecords = <<>>


\* C11: after a crash that leaves the WAL file ending in a partially written
\* record of a write that was never acknowledged, Open succeeds and Get
\* returns every write acknowledged before the crash.
C11_TornTailRecovered ==
    (recov.kind = "torn" /\ \E k \in Keys : recov.expect[k].ok) =>
        /\ pc = "down" => ReplayPath(TRUE, walFile).err = errNil
        /\ pc = "idle" => \A k \in Keys : DBGet(k) = recov.expect[k]


(***************************************************************************)
(* The sstable package on its own: WriteTable on a sorted entry sequence,  *)
(* then Get on the file.                                                   *)
(***************************************************************************)
\* entry j of a table: every second key of the sequence, values of length
\* 0, 1 and 2, and under pattern t > 0 a tombstone at every third entry
entryAt(j, t) ==
    IF t > 0 /\ j % 3 = t - 1
    THEN Entry(keyAt(2 * j), <<>>, TRUE)
    ELSE Entry(keyAt(2 * j),
               IF j % 3 = 0 THEN <<>> ELSE IF j % 3 = 1 THEN <<j>> ELSE <<j, 255>>,
               FALSE)

tableOf(n, t) == [j \in 1..n |-> entryAt(j, t)]

\* one record, two, three, one index stride, a stride plus one, a stride
\* plus two, several strides plus a remainder
TableSizes == {1, 2, 3, indexStride, indexStride + 1, indexStride + 2, MaxEntries}

\* a table whose first entry is a tombstone that carries a value
tombWithValue == <<Entry(keyAt(2), <<118>>, TRUE), entryAt(2, 0)>>

Tables == {tableOf(n, t) : n \in TableSizes, t \in 0..2} \cup {tombWithValue}

\* the tables whose file is written to or truncated after WriteTable
FaultTables == {tableOf(3, 1), tableOf(indexStride + 2, 1)}

\* the bytes written over the file: 0x00, 0xFF, and 0x05, which as the low
\* byte of the second index offset of the longer table ends the first scan
\* range one byte into a record
JunkBytes == {0, 5, 255}

\* the keys looked up in table tb: its own keys, the keys between them, one
\* before the first and one after the last
probeKeys(tb) == {keyAt(i) : i \in 1..(2 * Len(tb) + 1)}

\* the keys looked up in a file that was written to or truncated: the first
\* key and the key before it, the last key of the first index block and the
\* key after it, the last key and the key after it
faultProbes(tb) ==
    {keyAt(i) : i \in {1, 2, 2 * indexStride, 2 * indexStride + 1,
                       2 * Len(tb), 2 * Len(tb) + 1}
                      \cap (1..(2 * Len(tb) + 1))}

InitSST ==
    /\ pc = "sst_new"
    /\ EngineFresh
    /\ tbl \in Tables
    /\ file = EmptyFile /\ patch = NoPatch
    /\ target = <<>> /\ res = NoResult /\ log = <<>> /\ replayed = NoReplay
    /\ MoreFresh

\* sstable.WriteTable(path, tbl)
SstWrite ==
    /\ pc = "sst_new"
    /\ file' = WriteTable(tbl)
    /\ pc' = "sst_written"
    /\ UNCHANGED <<tbl, patch, target, res, log, replayed>>
    /\ UNCHANGED engineVars
    /\ UNCHANGED moreVars

\* the bytes junk at offset pos of file f, outside the Bloom region
writeAt(f, pos, junk) ==
    LET covered(off) == off \in pos..(pos + Len(junk) - 1)
        footerStart == Len(f.data) + bloomLen(f.bloom)
    IN  [f EXCEPT
            !.data = [i \in DOMAIN @ |->
                         IF covered(i - 1) THEN junk[i - pos] ELSE @[i]],
            !.footer = [i \in DOMAIN @ |->
                           IF covered(footerStart + i - 1)
                           THEN junk[footerStart + i - pos] ELSE @[i]]]

\* the offsets of file f outside its Bloom region
outsideBloom(f) ==
    (0..(Len(f.data) - 1))
        \cup ((Len(f.data) + bloomLen(f.bloom))..(fileSize(f) - 1))

\* the offsets written to, once the file is written
writeOffsets == IF pc = "sst_written" THEN outsideBloom(file) ELSE {}

\* f.WriteAt(junk, pos) on the written file (as the package tests damage it)
SstWriteAt(pos, junk) ==
    /\ pc = "sst_written" /\ tbl \in FaultTables
    /\ pos + Len(junk) <= fileSize(file)
    /\ pos + Len(junk) <= Len(file.data) \/ pos >= Len(file.data) + bloomLen(file.bloom)
    /\ file' = writeAt(file, pos, junk)
    /\ patch' = [kind |-> "write", pos |-> pos, junk |-> junk]
    /\ pc' = "sst_patched"
    /\ UNCHANGED <<tbl, target, res, log, replayed>>
    /\ UNCHANGED engineVars
    /\ UNCHANGED moreVars

\* os.Truncate(path, n): the file keeps its first n bytes
SstTruncate(n) ==
    /\ pc = "sst_written" /\ tbl \in FaultTables
    /\ n <= Len(file.data)
    /\ file' = [data |-> SubSeq(file.data, 1, n), bloom |-> NoBloom, footer |-> <<>>]
    /\ patch' = [kind |-> "truncate", pos |-> n, junk |-> <<>>]
    /\ pc' = "sst_patched"
    /\ UNCHANGED <<tbl, target, res, log, replayed>>
    /\ UNCHANGED engineVars
    /\ UNCHANGED moreVars

\* sstable.Get(path, key)
SstGet(key) ==
    /\ \/ pc = "sst_written" /\ key \in probeKeys(tbl)
       \/ pc = "sst_patched" /\ key \in faultProbes(tbl)
    /\ target' = key
    /\ res' = SSTGet(file, key)
    /\ pc' = "sst_got"
    /\ UNCHANGED <<tbl, file, patch, log, replayed>>
    /\ UNCHANGED engineVars
    /\ UNCHANGED moreVars

NextSST ==
    \/ SstWrite
    \/ \E pos \in writeOffsets, b \in JunkBytes : SstWriteAt(pos, <<b>>)
    \/ \E n \in 0..(headerSize + footerSize) : SstTruncate(n)
    \/ \E key \in TableKeys : SstGet(key)

SpecSST == InitSST /\ [][NextSST]_vars

\* the entries of tb with key k
entriesFor(tb, k) == {j \in DOMAIN tb : tb[j].key = k}

\* what Get has to return for key k on the table written from tb
expectedGet(tb, k) ==
    IF entriesFor(tb, k) = {} THEN GetReturn(<<>>, NotFound, errNil)
    ELSE LET e == tb[CHOOSE j \in entriesFor(tb, k) : TRUE]
         IN  IF e.tomb THEN GetReturn(<<>>, Deleted, errNil)
             ELSE GetReturn(e.value, Found, errNil)

\* C12: for entries with strictly ascending non-empty keys, WriteTable
\* followed by Get returns Found with the written value for a live key,
\* Deleted for a tombstone and NotFound without error for an absent key,
\* wherever the key sorts.
C12_WriteThenGet ==
    (pc = "sst_got" /\ patch = NoPatch) => res = expectedGet(tbl, target)

\* the last key of a table of several strides plus a remainder is Found
C12_Witness ==
    /\ pc = "sst_got" /\ patch = NoPatch
    /\ Len(tbl) > 2 * indexStride
    /\ target = tbl[Len(tbl)].key
    /\ res.res = Found

(***************************************************************************)
(* The wal package on its own: Open on a fresh path, AppendPut and         *)
(* AppendDelete calls that return nil, then Replay of the file.            *)
(***************************************************************************)
WalKeys == {<<>>, <<97>>, <<2, 0>>}
WalValues == {<<>>, <<49>>, <<1, 9>>}

\* the engine's variables other than the WAL handle and the WAL file
walFrame == <<mem, sstDir, sstables, nextID, call, acked, last, pre, recov, failed,
              budget>>

InitWAL ==
    /\ pc = "wal_open"
    /\ EngineFresh
    /\ tbl = <<>> /\ file = EmptyFile /\ patch = NoPatch
    /\ target = <<>> /\ res = NoResult /\ log = <<>> /\ replayed = NoReplay
    /\ MoreFresh

\* w.AppendPut(key, value) returns nil
WalAppendPut(key, value) ==
    /\ pc = "wal_open" /\ Len(log) < MaxAppends
    /\ AppendOK(putBytes(key, value))
    /\ log' = Append(log, Record(opPut, key, value))
    /\ UNCHANGED <<pc, tbl, file, patch, target, res, replayed>>
    /\ UNCHANGED walFrame
    /\ UNCHANGED moreVars

\* w.AppendDelete(key) returns nil
WalAppendDelete(key) ==
    /\ pc = "wal_open" /\ Len(log) < MaxAppends
    /\ AppendOK(deleteBytes(key))
    /\ log' = Append(log, Record(opDelete, key, <<>>))
    /\ UNCHANGED <<pc, tbl, file, patch, target, res, replayed>>
    /\ UNCHANGED walFrame
    /\ UNCHANGED moreVars

\* wal.Replay(path)
WalReplay ==
    /\ pc = "wal_open"
    /\ replayed' = ReplayPath(TRUE, walFile)
    /\ pc' = "wal_replayed"
    /\ UNCHANGED <<tbl, file, patch, target, res, log>>
    /\ UNCHANGED engineVars
    /\ UNCHANGED moreVars

NextWAL ==
    \/ \E key \in WalKeys, value \in WalValues : WalAppendPut(key, value)
    \/ \E key \in WalKeys : WalAppendDelete(key)
    \/ WalReplay

SpecWAL == InitWAL /\ [][NextWAL]_vars

\* C13: after AppendPut and AppendDelete calls that all returned nil on a
\* fresh WAL, Replay returns no error and exactly one record per call, in
\* call order, with the call's op, key and value (no value for a Delete).
C13_ReplayReturnsAppends ==
    pc = "wal_replayed" => replayed = [err |-> errNil, records |-> log]

\* a Put with a value, then a Delete, then a Put of the zero-length value,
\* replayed
C13_Witness ==
    /\ pc = "wal_replayed"
    /\ Len(log) = 3
    /\ log[1].op = opPut /\ log[1].value # <<>>
    /\ log[2].op = opDelete
    /\ log[3].op = opPut /\ log[3].value = <<>>
    /\ Len(replayed.records) = 3


\* the file is read as far as the Bloom filter: magic, footer and Bloom
\* region are valid
bloomReached(f) ==
    /\ fileSize(f) >= headerSize /\ u32At(f, 0) = magic
    /\ loadFooter(f).err = errNil
    /\ bloomAt(f, loadFooter(f).bloomStartOffset, fileSize(f) - footerSize).ok

\* the filter of the file's Bloom region
bloomOf(f) == bloomAt(f, loadFooter(f).bloomStartOffset, fileSize(f) - footerSize).bf

\* the Bloom section of every file looked into is the region WriteTable
\* wrote, or fails a check of unmarshalBloom
BloomSectionAsWritten == res.err # errShifted

\* C14: when header magic, footer and Bloom region are valid and the Bloom
\* filter excludes the key, Get returns NotFound with no error, whatever the
\* index region and the data region hold.
C14_BloomMissSkipsIndex ==
    (pc = "sst_got" /\ bloomReached(file) /\ mayContain(bloomOf(file), target) = "no")
        => res = GetReturn(<<>>, NotFound, errNil)

\* a byte of the index region was overwritten so that the index no longer
\* loads, and a key the filter excludes is NotFound without error
C14_Witness ==
    /\ pc = "sst_got" /\ patch.kind = "write"
    /\ bloomReached(file)
    /\ patch.pos >= loadFooter(file).indexStartOffset
    /\ loadIndex(file).err = ErrCorruptSST
    /\ mayContain(bloomOf(file), target) = "no"
    /\ res = GetReturn(<<>>, NotFound, errNil)

\* the scan range Get selects in file f for key
scanRange(f, key) ==
    pickScanRange(loadIndex(f).entries, loadFooter(f).indexStartOffset, key)

\* the file was overwritten in its data region, outside the scan range of
\* the target
patchedOutsideRange ==
    /\ patch.kind = "write"
    /\ patch.pos >= headerSize
    /\ patch.pos + Len(patch.junk) <= loadFooter(file).indexStartOffset
    /\ loadIndex(file).err = errNil
    /\ LET rg == scanRange(file, target)
       IN  patch.pos + Len(patch.junk) <= rg.start \/ patch.pos >= rg.end

\* C15: two files that agree on header magic, footer, Bloom region, index
\* region and the bytes of the scan range selected for the key give the same
\* result, wherever else in the data region they differ.
C15_ResultIgnoresBytesOutsideRange ==
    (pc = "sst_got" /\ patchedOutsideRange) => res = SSTGet(WriteTable(tbl), target)

\* a key whose range starts after headerSize is Found after a byte before
\* the range was overwritten
C15_Witness ==
    /\ pc = "sst_got" /\ patchedOutsideRange
    /\ scanRange(file, target).start > headerSize
    /\ patch.pos < scanRange(file, target).start
    /\ res.res = Found

\* Get gets as far as scanning a range of file f for key
scanReached(f, key) ==
    /\ bloomReached(f)
    /\ mayContain(bloomOf(f), key) = "yes"
    /\ loadIndex(f).err = errNil
    /\ scanRange(f, key).end > scanRange(f, key).start

\* what the scan of [off, end) has to return: NotFound when the range ends
\* at a record boundary or a greater key is read, ErrCorruptSST when a record
\* cannot be read completely inside the range
RECURSIVE scanStrict(_, _, _, _)
scanStrict(f, key, off, end) ==
    LET corrupt == GetReturn(<<>>, NotFound, ErrCorruptSST)
    IN  IF off = end THEN GetReturn(<<>>, NotFound, errNil)
        ELSE IF off + 9 > end THEN corrupt
        ELSE LET keyLen == u32At(f, off)
                 valLen == u32At(f, off + 4)
             IN  IF keyLen > end - (off + 9) \/ valLen > end - (off + 9) - keyLen
                 THEN corrupt
                 ELSE LET k == readAt(f, off + 9, keyLen)
                      IN  IF k = key
                          THEN (IF byteAt(f, off + 8) = 1
                                THEN GetReturn(<<>>, Deleted, errNil)
                                ELSE GetReturn(readAt(f, off + 9 + keyLen, valLen),
                                               Found, errNil))
                          ELSE IF KeyLess(key, k)
                          THEN GetReturn(<<>>, NotFound, errNil)
                          ELSE scanStrict(f, key, off + 9 + keyLen + valLen, end)

\* C16: while scanning the selected range, Get returns ErrCorruptSST whenever
\* a record cannot be read completely inside the range, also when the range
\* ends 1 to 3 bytes into a keyLen field; NotFound is returned only at a
\* record boundary or after a greater key.
C16_ShortReadInRangeIsCorrupt ==
    (pc = "sst_got" /\ scanReached(file, target)) =>
        res = scanStrict(file, target, scanRange(file, target).start,
                         scanRange(file, target).end)

\* the footer of file f satisfies
\* headerSize <= indexStartOffset < bloomStartOffset < fileSize - footerSize
footerValid(f) ==
    /\ fileSize(f) >= headerSize + footerSize
    /\ LET footerStart == fileSize(f) - footerSize
           ix == u64At(f, footerStart)
           bl == u64At(f, footerStart + 8)
       IN  /\ ix # -1 /\ bl # -1
           /\ headerSize <= ix /\ ix < bl /\ bl < footerStart

\* C17: Get returns ErrCorruptSST for every key unless the footer satisfies
\* headerSize <= indexStartOffset < bloomStartOffset < fileSize - footerSize;
\* a file shorter than headerSize + footerSize is reported as corrupt too.
C17_BadFooterIsCorrupt ==
    (pc = "sst_got" /\ ~footerValid(file)) => res.err = ErrCorruptSST


\* Flush has just returned nil for a memtable that was empty at the call
emptyFlushReturned ==
    /\ pc = "idle" /\ last = Returned("Flush", errNil)
    /\ pre # NoSnapshot /\ pre.mem = NewMemTable

\* C18: Flush called with an empty memtable returns nil and changes nothing:
\* no .sst or .sst.tmp file is created, and SSTable stack, nextID, memtable
\* and WAL file are as before.
C18_EmptyFlushChangesNothing ==
    emptyFlushReturned =>
        /\ sstDir = pre.sstDir
        /\ sstables = pre.sstables
        /\ nextID = pre.nextID
        /\ mem = pre.mem
        /\ walFile = pre.walFile

\* a Flush of the empty memtable of an engine that has an SSTable
C18_Witness == emptyFlushReturned /\ sstables # <<>>


\* the published files of directory dir
sstFiles(dir) == {p \in DOMAIN dir : hasSuffix(p, extSST)}

\* while the engine is open, nextID is greater than every id in the stack
stackBelowNextID ==
    pc # "down" =>
        \A i \in DOMAIN sstables :
            parseSSTID(sstables[i]).ok /\ parseSSTID(sstables[i]).id < nextID

\* a step keeps every published file as it is, and a file published by the
\* step has an id greater than that of every file published before
publishesAbove ==
    /\ \A p \in sstFiles(sstDir) : p \in DOMAIN sstDir' /\ sstDir'[p] = sstDir[p]
    /\ \A p \in sstFiles(sstDir') \ sstFiles(sstDir) :
           \A q \in sstFiles(sstDir) : parseSSTID(q).id < parseSSTID(p).id

\* C19: across flushes, failed flushes, crashes and reopenings, every Flush
\* publishes a file with an id greater than the id of every .sst file in the
\* directory: nextID is greater than every id in the stack, no id is used
\* twice and no published file is overwritten.
C19_IdsIncrease == []stackBelowNextID /\ [][publishesAbove]_vars

\* two tables published, with a crash, a Close or a failed call in the run
C19_Witness ==
    /\ pc = "idle" /\ Len(sstables) = 2 /\ nextID = 3
    /\ budget.events = 1


(***************************************************************************)
(* Open on a directory left by an earlier run of the engine: the files of  *)
(* some of its flushes, among them flushes past the six-digit padding.     *)
(***************************************************************************)
DirIDs == {1, 2, 10, 999998, 999999, 1000000, 1000001}

\* the directory holding the files of the flushes with the ids in S
dirOf(S) ==
    [p \in {sstName(id) : id \in S} |-> WriteTable(<<Entry(<<97>>, <<49>>, FALSE)>>)]

\* the directory paths: "db", and "d[" whose "[" makes a malformed pattern
DirNames == {DefaultDir, <<100, 91>>}

\* the WAL files found at Open: none, one record, a record and a torn one
DirLogs == {<<>>, putBytes(<<97>>, <<49>>),
            putBytes(<<97>>, <<49>>) \o SubSeq(deleteBytes(<<97>>), 1, 4)}

InitDir ==
    /\ pc = "down"
    /\ sstDir \in {dirOf(S) : S \in SUBSET DirIDs}
    /\ dbDir \in DirNames
    /\ walFile \in DirLogs
    /\ mem = NewMemTable /\ wal = WalGone
    /\ sstables = <<>> /\ nextID = 0
    /\ call = NoCall
    /\ acked = [k \in Keys |-> Absent]
    /\ last = Returned("Close", errNil)
    /\ pre = NoSnapshot /\ recov = NoRecov /\ failed = FALSE
    /\ budget = [ops |-> 0, flushes |-> 0, events |-> 0]
    /\ tbl = <<>> /\ file = EmptyFile /\ patch = NoPatch
    /\ target = <<>> /\ res = NoResult /\ log = <<>> /\ replayed = NoReplay
    /\ MemFresh /\ ConcFresh /\ SkipFresh

NextDir == Open

SpecDir == InitDir /\ [][NextDir]_vars

\* the greatest id among the published files of dir, 0 when there is none
maxID(dir) ==
    IF sstFiles(dir) = {} THEN 0
    ELSE LET ids == {parseSSTID(p).id : p \in sstFiles(dir)}
         IN  CHOOSE m \in ids : \A n \in ids : n <= m

\* C20: after Open the stack lists the .sst files of the directory in
\* strictly descending numeric id order and nextID is the greatest id plus 1
\* (1 when there is no file), also for ids longer than six digits.
C20_StackNewestFirst ==
    (pc = "idle" /\ last = Returned("Open", errNil)) =>
        /\ {sstables[i] : i \in DOMAIN sstables} = sstFiles(sstDir)
        /\ \A i, j \in DOMAIN sstables :
               i < j => parseSSTID(sstables[i]).id > parseSSTID(sstables[j]).id
        /\ nextID = maxID(sstDir) + 1


(***************************************************************************)
(* The memtable package on its own, with a caller that keeps the buffers   *)
(* it hands to Put and the slices returned to it, and writes into them.    *)
(***************************************************************************)
MemKeys == {<<97>>, <<98>>}
MemValues == {<<>>, <<104>>}

\* the byte a caller writes into a slice it holds ('X')
scribble == 88

\* what the caller holds: the slice at address a, obtained from call op
Held(a, op) == [addr |-> a, from |-> op, changed |-> FALSE]

\* the non-nil slices among the values of entries, as held from op
heldFrom(entries, op) ==
    {Held(entries[i].value, op) : i \in {j \in DOMAIN entries : entries[j].value # nilSlice}}

InitMem ==
    /\ pc = "mem"
    /\ EngineFresh
    /\ tbl = <<>> /\ file = EmptyFile /\ patch = NoPatch
    /\ target = <<>> /\ res = NoResult /\ log = <<>> /\ replayed = NoReplay
    /\ MoreFresh

memFrame == <<pc, engineVars, dbDir, concVars, skipVars, tbl, file, patch, target, res, log, replayed>>

\* buf := []byte(value); m.Put(key, buf)        (buf stays nil for no bytes)
MemPutCall(key, value) ==
    /\ pc = "mem" /\ Len(heap) + 2 <= MaxSlices
    /\ LET buf == IF value = <<>> THEN [heap |-> heap, addr |-> nilSlice]
                  ELSE alloc(heap, value)
           r == putSlice(buf.heap, mtab, key, buf.addr)
       IN  /\ heap' = r.heap
           /\ mtab' = r.mem
           /\ bufs' = bufs \cup (IF buf.addr = nilSlice THEN {} ELSE {Held(buf.addr, "Put")})
    /\ stored' = MemPut(stored, key, value)
    /\ UNCHANGED memFrame

\* m.Delete(key)
MemDeleteCall(key) ==
    /\ pc = "mem"
    /\ mtab' = deleteSlice(mtab, key)
    /\ stored' = MemDelete(stored, key)
    /\ UNCHANGED <<heap, bufs>>
    /\ UNCHANGED memFrame

\* v, ok := m.Get(key)
MemGetCall(key) ==
    /\ pc = "mem" /\ Len(heap) + 1 <= MaxSlices
    /\ LET r == getSlice(heap, mtab, key)
       IN  /\ r.ok /\ r.value # nilSlice
           /\ heap' = r.heap
           /\ bufs' = bufs \cup {Held(r.value, "Get")}
    /\ UNCHANGED <<mtab, stored>>
    /\ UNCHANGED memFrame

\* out := m.Range(start, end)   or   out := m.RangeAll(start, end)
MemRangeCall(start, end, all) ==
    /\ pc = "mem" /\ Len(heap) + Len(mtab) <= MaxSlices
    /\ LET r == rangeSlices(heap, rangeFrom(mtab, start), end, all, <<>>)
       IN  /\ r.heap # heap
           /\ heap' = r.heap
           /\ bufs' = bufs \cup heldFrom(r.out, IF all THEN "RangeAll" ELSE "Range")
    /\ UNCHANGED <<mtab, stored>>
    /\ UNCHANGED memFrame

\* s[i] = 'X' on a slice s the caller holds
MemScribble(a, i) ==
    /\ pc = "mem"
    /\ \E s \in bufs :
          /\ s.addr = a /\ i \in DOMAIN heap[a] /\ heap[a][i] # scribble
          /\ heap' = [heap EXCEPT ![a][i] = scribble]
          /\ bufs' = (bufs \ {s}) \cup {[s EXCEPT !.changed = TRUE]}
    /\ UNCHANGED <<mtab, stored>>
    /\ UNCHANGED memFrame

NextMem ==
    \/ \E key \in MemKeys, value \in MemValues : MemPutCall(key, value)
    \/ \E key \in MemKeys : MemDeleteCall(key)
    \/ \E key \in MemKeys : MemGetCall(key)
    \/ \E start \in MemKeys \cup {<<>>}, end \in MemKeys \cup {<<>>}, all \in BOOLEAN :
          MemRangeCall(start, end, all)
    \/ \E a \in 1..MaxSlices : MemScribble(a, 1)

SpecMem == InitMem /\ [][NextMem]_vars

\* what Get, Range and RangeAll return now, by content
getNow(key) ==
    LET r == getSlice(heap, mtab, key)
    IN  [ok |-> r.ok, value |-> bytesOf(r.heap, r.value)]
rangeNow(start, end, all) ==
    LET r == rangeSlices(heap, rangeFrom(mtab, start), end, all, <<>>)
    IN  contents(r.heap, r.out)

\* C21: whatever the caller writes into a buffer it handed to Put or into a
\* slice returned by Get, Range or RangeAll, Get, Range and RangeAll return
\* the bytes that were put.
C21_StoredBytesIsolated ==
    /\ \A key \in MemKeys : getNow(key) = MemGet(stored, key)
    /\ \A start \in MemKeys \cup {<<>>}, end \in MemKeys \cup {<<>>} :
          /\ rangeNow(start, end, FALSE) = Range(stored, start, end)
          /\ rangeNow(start, end, TRUE) = RangeAll(stored, start, end)

\* the caller has written into the buffer it put and into slices returned
\* by Get and by RangeAll, and the key is still live
C21_Witness ==
    /\ \E s \in bufs : s.from = "Put" /\ s.changed
    /\ \E s \in bufs : s.from = "Get" /\ s.changed
    /\ \E s \in bufs : s.from = "RangeAll" /\ s.changed
    /\ \E key \in MemKeys : MemGet(stored, key).ok /\ MemGet(stored, key).value # <<>>


(***************************************************************************)
(* wal.Replay on files of any content: frames with op bytes 0, 1 and 2     *)
(* laid end to end, then one byte overwritten or the file cut short or     *)
(* removed.                                                                *)
(***************************************************************************)
\* a frame in the record layout with any op byte
frame(op, key, value) == <<op>> \o u32le(Len(key)) \o u32le(Len(value)) \o key \o value

LogOps == {opPut, opDelete, 2}
LogBodies == {<<<<>>, <<>>>>, <<<<97>>, <<>>>>, <<<<97>>, <<1>>>>}
LogFrames == {frame(op, kv[1], kv[2]) : op \in LogOps, kv \in LogBodies}

RECURSIVE framesUpTo(_)
framesUpTo(n) ==
    IF n = 0 THEN {<<>>}
    ELSE LET shorter == framesUpTo(n - 1)
         IN  shorter \cup {b \o f : b \in shorter, f \in LogFrames}

LogFiles == framesUpTo(MaxRecords)

\* the bytes written over the file: as an op byte 0, 1 and 2, as a length
\* byte a record of another length
LogJunk == {0, 1, 2}

InitLog ==
    /\ pc = "log_file"
    /\ walFile \in LogFiles
    /\ mem = NewMemTable /\ wal = WalGone /\ sstDir = <<>>
    /\ sstables = <<>> /\ nextID = 0
    /\ call = NoCall
    /\ acked = [k \in Keys |-> Absent]
    /\ last = Returned("Close", errNil)
    /\ pre = NoSnapshot /\ recov = NoRecov /\ failed = FALSE
    /\ budget = [ops |-> 0, flushes |-> 0, events |-> 0]
    /\ tbl = <<>> /\ file = EmptyFile /\ patch = NoPatch
    /\ target = <<>> /\ res = NoResult /\ log = <<>> /\ replayed = NoReplay
    /\ MoreFresh

logFrame == <<mem, wal, sstDir, sstables, nextID, call, acked, last, pre, recov, failed,
              budget, tbl, file, target, res, log, moreVars>>

\* f.WriteAt([]byte{b}, pos) on the log file
LogWriteAt(pos, b) ==
    /\ pc = "log_file"
    /\ pos < Len(walFile) /\ walFile[pos + 1] # b
    /\ walFile' = [walFile EXCEPT ![pos + 1] = b]
    /\ patch' = [kind |-> "write", pos |-> pos, junk |-> <<b>>]
    /\ pc' = "log_damaged"
    /\ UNCHANGED replayed
    /\ UNCHANGED logFrame

\* os.Truncate(path, n)
LogTruncate(n) ==
    /\ pc = "log_file"
    /\ n < Len(walFile)
    /\ walFile' = SubSeq(walFile, 1, n)
    /\ patch' = [kind |-> "truncate", pos |-> n, junk |-> <<>>]
    /\ pc' = "log_damaged"
    /\ UNCHANGED replayed
    /\ UNCHANGED logFrame

\* os.Remove(path)
LogRemove ==
    /\ pc = "log_file"
    /\ walFile' = <<>>
    /\ patch' = [kind |-> "remove", pos |-> 0, junk |-> <<>>]
    /\ pc' = "log_damaged"
    /\ UNCHANGED replayed
    /\ UNCHANGED logFrame

\* wal.Replay(path)
LogReplay ==
    /\ pc \in {"log_file", "log_damaged"}
    /\ replayed' = ReplayPath(patch.kind # "remove", walFile)
    /\ pc' = "log_replayed"
    /\ UNCHANGED <<walFile, patch>>
    /\ UNCHANGED logFrame

NextLog ==
    \/ \E pos \in 0..(MaxRecords * 11 - 1), b \in LogJunk : LogWriteAt(pos, b)
    \/ \E n \in 0..(MaxRecords * 11 - 1) : LogTruncate(n)
    \/ LogRemove
    \/ LogReplay

SpecLog == InitLog /\ [][NextLog]_vars

\* the bytes b[from+1 .. to] are one complete record with op byte 0 or 1
isRecord(b, from, to) ==
    /\ to - from >= 9
    /\ b[from + 1] \in {opPut, opDelete}
    /\ to - from = 9 + rdU32(b, from + 1) + rdU32(b, from + 5)

\* the record held by the bytes b[from+1 .. to]
recordIn(b, from, to) ==
    LET keyLen == rdU32(b, from + 1)
    IN  Record(b[from + 1], Slice(b, from + 9, keyLen),
               Slice(b, from + 9 + keyLen, to - from - 9 - keyLen))

\* the offsets of b at which a run of complete records that starts at one
\* of the offsets S ends
RECURSIVE boundaries(_, _)
boundaries(b, S) ==
    LET T == S \cup {c \in 9..Len(b) : \E p \in S : isRecord(b, p, c)}
    IN  IF T = S THEN S ELSE boundaries(b, T)

\* b is complete records with op byte 0 or 1 laid end to end
wholeRecords(b) == Len(b) \in boundaries(b, {0})

\* the i-th offset of pts in ascending order, counted from 0
nthCut(pts, i) == CHOOSE p \in pts : Cardinality({q \in pts : q < p}) = i

\* the records of b cut at pts, in file order
recordsAt(b, pts) ==
    [i \in 1..(Cardinality(pts) - 1) |-> recordIn(b, nthCut(pts, i - 1), nthCut(pts, i))]

\* C22: Replay returns the records without error exactly when the file is
\* complete records with op byte 0 or 1 laid end to end (none for the empty
\* and for the missing file), and ErrCorruptWAL with no records otherwise.
C22_ReplayExactlyWholeRecords ==
    pc = "log_replayed" =>
        IF wholeRecords(walFile)
        THEN replayed = [err |-> errNil,
                         records |-> recordsAt(walFile, boundaries(walFile, {0}))]
        ELSE replayed = [err |-> ErrCorruptWAL, records |-> <<>>]

\* a file of two records whose first keyLen was overwritten: it ends inside
\* a record and is refused
C22_Witness ==
    /\ pc = "log_replayed"
    /\ patch.kind = "write" /\ patch.pos \in 1..4
    /\ replayed.err = ErrCorruptWAL


(***************************************************************************)
(* Open on a directory whose WAL does not replay or whose path makes the   *)
(* directory scan fail.                                                    *)
(***************************************************************************)
\* a step in which Open returns an error
openFailed == pc = "down" /\ last' # last /\ last'.op = "Open" /\ last'.err # errNil

\* C23: when replay or the directory scan fails, Open returns that error
\* and no engine, the WAL handle is closed, and the WAL file and the files
\* of the sst directory are as before.
C23_FailedOpenReleases ==
    [][openFailed =>
          /\ last'.err \in {ErrCorruptWAL, ErrBadPattern}
          /\ pc' = "down" /\ mem' = NewMemTable /\ sstables' = <<>>
          /\ ~wal'.open
          /\ walFile' = walFile /\ sstDir' = sstDir]_vars

\* Open has failed on the scan of a directory that holds tables and a WAL
\* that replays
C23_Witness ==
    /\ pc = "down" /\ last = Returned("Open", ErrBadPattern)
    /\ sstDir # <<>> /\ walFile # <<>>


(***************************************************************************)
(* sstable.Get on files whose regions were rewritten by hand: the index    *)
(* region, the head of the Bloom region, the length of the file, the magic.*)
(***************************************************************************)
\* the tables written: one index entry, and two
FmtTables == {tableOf(2, 0), tableOf(indexStride + 2, 0)}

\* the keys looked up: before the first key, the first key, a key between
\* two keys of the first block, the first key of the second block
FmtProbes == {keyAt(1), keyAt(2), keyAt(3), keyAt(2 * indexStride + 2)}

\* an index entry as written by hand: the keyLen field is given apart from
\* the key bytes
rawEntry(keyLen, key, offset) == [keyLen |-> keyLen, key |-> key, offset |-> offset]

RECURSIVE rawIndexBytes(_)
rawIndexBytes(idx) ==
    IF idx = <<>> THEN <<>>
    ELSE u32le(idx[1].keyLen) \o idx[1].key \o u64le(idx[1].offset)
             \o rawIndexBytes(Tail(idx))

\* index entries as they lie in the file: keyLen, key bytes, offset
RECURSIVE rawEntries(_)
rawEntries(entries) ==
    IF entries = <<>> THEN <<>>
    ELSE <<rawEntry(Len(entries[1].key), entries[1].key, entries[1].offset)>>
             \o rawEntries(Tail(entries))

\* the index WriteTable puts into the file it writes for entries
writtenIndex(entries) ==
    rawEntries(writeRecords(entries, 1, headerSize, <<>>, <<>>).idx)

\* file f with its index region replaced by the count and the entries idx
\* (the Bloom region follows the new index, and the footer says so)
rewriteIndex(f, count, idx) ==
    LET ix == loadFooter(f).indexStartOffset
        data == SubSeq(f.data, 1, ix) \o u32le(count) \o rawIndexBytes(idx)
    IN  [data |-> data, bloom |-> f.bloom, footer |-> u64le(ix) \o u64le(Len(data))]

\* the ways the index is rewritten
IndexEdits == {"count_zero", "count_over", "count_more", "keylen_zero", "keylen_over",
               "key_equal", "key_below", "offset_header", "offset_index", "offset_record"}

\* edit e applied to entry i of the index idx of a file whose index starts at ix
editedIndex(e, i, idx, ix) ==
    [count |-> IF e = "count_zero" THEN 0
               ELSE IF e = "count_over" THEN maxIndexCount + 1
               ELSE IF e = "count_more" THEN Len(idx) + 1
               ELSE Len(idx),
     idx |-> IF e = "keylen_zero" THEN [idx EXCEPT ![i].keyLen = 0]
             ELSE IF e = "keylen_over" THEN [idx EXCEPT ![i].keyLen = maxIndexKeySize + 1]
             ELSE IF e = "key_equal" THEN [idx EXCEPT ![i].key = idx[i - 1].key]
             ELSE IF e = "key_below" THEN [idx EXCEPT ![i].key = keyAt(1)]
             ELSE IF e = "offset_header" THEN [idx EXCEPT ![i].offset = headerSize - 1]
             ELSE IF e = "offset_index" THEN [idx EXCEPT ![i].offset = ix]
             ELSE IF e = "offset_record" THEN [idx EXCEPT ![i].offset = ix - 1]
             ELSE idx]

fmtFrame == <<engineVars, tbl, target, res, log, replayed, moreVars>>

InitFmt ==
    /\ pc = "sst_new"
    /\ EngineFresh
    /\ tbl \in FmtTables
    /\ file = EmptyFile /\ patch = NoPatch
    /\ target = <<>> /\ res = NoResult /\ log = <<>> /\ replayed = NoReplay
    /\ MoreFresh

\* the index region of the written file is written again, with edit e at
\* entry i
FmtWriteIndex(e, i) ==
    /\ pc = "sst_written"
    /\ e \in {"key_equal", "key_below"} => i > 1
    /\ e \in {"count_zero", "count_over", "count_more"} => i = 1
    /\ \E written \in {writtenIndex(tbl)} :
           /\ i <= Len(written)
           /\ \E ed \in {editedIndex(e, i, written, loadFooter(file).indexStartOffset)} :
                  /\ file' = rewriteIndex(file, ed.count, ed.idx)
                  /\ patch' = [kind |-> "index", pos |-> ed.count, junk |-> ed.idx]
    /\ pc' = "fmt_edited"
    /\ UNCHANGED fmtFrame

\* the head of the Bloom region is written again: m, k and bitsetLen
FmtWriteBloomHead(m, k, n) ==
    /\ pc = "sst_written"
    /\ file' = [file EXCEPT !.bloom.m = IF m = -1 THEN @ ELSE m,
                            !.bloom.k = IF k = -1 THEN @ ELSE k,
                            !.bloom.n = IF n = -1 THEN @ ELSE n]
    /\ patch' = [kind |-> "bloom", pos |-> 0, junk |-> <<m, k, n>>]
    /\ pc' = "fmt_edited"
    /\ UNCHANGED fmtFrame

\* os.Truncate(path, n)
FmtTruncate(n) ==
    /\ pc = "sst_written"
    /\ n <= Len(file.data)
    /\ file' = [data |-> SubSeq(file.data, 1, n), bloom |-> NoBloom, footer |-> <<>>]
    /\ patch' = [kind |-> "truncate", pos |-> n, junk |-> <<>>]
    /\ pc' = "fmt_edited"
    /\ UNCHANGED fmtFrame

\* f.WriteAt(b, 0) with four bytes b that are not the magic
FmtWriteMagic(b) ==
    /\ pc \in {"sst_written", "fmt_edited"}
    /\ Len(file.data) >= 4
    /\ file' = writeAt(file, 0, b)
    /\ pc' = "fmt_magic"
    /\ UNCHANGED patch
    /\ UNCHANGED fmtFrame

\* sstable.Get(path, key)
FmtGet(key) ==
    /\ pc \in {"sst_written", "fmt_edited", "fmt_magic"}
    /\ target' = key
    /\ res' = SSTGet(file, key)
    /\ pc' = "fmt_got"
    /\ UNCHANGED <<tbl, file, patch, log, replayed>>
    /\ UNCHANGED engineVars
    /\ UNCHANGED moreVars

\* the values written over the fields of the Bloom head (-1: field left)
BloomHeads == {<<0, -1, -1>>, <<2 * bloomBits, -1, -1>>, <<-1, 0, -1>>, <<-1, 1, -1>>,
               <<-1, -1, 0>>, <<-1, -1, (bloomBits \div 8) - 1>>}

NextFmt ==
    \/ SstWrite
    \/ \E e \in IndexEdits, i \in 1..2 : FmtWriteIndex(e, i)
    \/ \E h \in BloomHeads : FmtWriteBloomHead(h[1], h[2], h[3])
    \/ \E n \in {4, headerSize, headerSize + footerSize} : FmtTruncate(n)
    \/ \E b \in {<<0, 0, 0, 0>>, u32le(magic + 1)} : FmtWriteMagic(b)
    \/ \E key \in FmtProbes : FmtGet(key)

SpecFmt == InitFmt /\ [][NextFmt]_vars

\* C24: when the first four bytes of the file are not the magic, Get
\* returns ErrCorruptSST for every key, whatever the rest of the file holds.
C24_BadMagicIsCorrupt ==
    (pc = "fmt_got" /\ fileSize(file) >= 4 /\ readAt(file, 0, 4) # u32le(magic)) =>
        res = GetReturn(<<>>, NotFound, ErrCorruptSST)

\* the magic was overwritten in a file whose Bloom head says twice the bits
\* of its bitset
C24_Witness ==
    /\ pc = "fmt_got"
    /\ readAt(file, 0, 4) # u32le(magic)
    /\ patch.kind = "bloom" /\ file.bloom.m = 2 * bloomBits
    /\ res.err = ErrCorruptSST


(***************************************************************************)
(* The records of a published SSTable.                                     *)
(***************************************************************************)
\* the records laid end to end in the bytes [off, end) of file f, as
\* entries with their valLen field; none if the bytes are not whole records
RECURSIVE recordsIn(_, _, _)
recordsIn(f, off, end) ==
    IF off = end THEN [ok |-> TRUE, recs |-> <<>>]
    ELSE IF off + 9 > end THEN [ok |-> FALSE, recs |-> <<>>]
    ELSE LET keyLen == u32At(f, off)
             valLen == u32At(f, off + 4)
             rest == recordsIn(f, off + 9 + keyLen + valLen, end)
         IN  IF off + 9 + keyLen + valLen > end \/ ~rest.ok
             THEN [ok |-> FALSE, recs |-> <<>>]
             ELSE [ok |-> TRUE,
                   recs |-> <<[key |-> readAt(f, off + 9, keyLen),
                               value |-> readAt(f, off + 9 + keyLen, valLen),
                               tomb |-> byteAt(f, off + 8),
                               valLen |-> valLen]>> \o rest.recs]

\* the records of the data region of file f
dataRecords(f) == recordsIn(f, headerSize, loadFooter(f).indexStartOffset)

\* the records are those of the entries, one for one and in order, with
\* tombstone byte 1 and valLen 0 for a tombstone
holdsExactly(f, entries) ==
    LET d == dataRecords(f)
    IN  /\ loadFooter(f).err = errNil /\ d.ok
        /\ Len(d.recs) = Len(entries)
        /\ u32At(f, 4) = Len(entries)
        /\ \A j \in DOMAIN entries :
              /\ d.recs[j].key = entries[j].key
              /\ d.recs[j].value = entries[j].value
              /\ d.recs[j].tomb = (IF entries[j].tomb THEN 1 ELSE 0)
              /\ entries[j].tomb => d.recs[j].valLen = 0

\* keys strictly ascending (so each key once)
strictlyAscending(recs) ==
    \A j \in 1..(Len(recs) - 1) : KeyLess(recs[j].key, recs[j + 1].key)

\* C25: the SSTable a Flush publishes holds exactly the entries the memtable
\* had when Flush was called, each key once with its latest value and every
\* tombstone as a record with tombstone byte 1 and valLen 0; in every
\* published SSTable the keys are strictly ascending.
C25_FlushedTableIsMemtable ==
    /\ pc \in {"flush_renamed", "flush_reset", "flush_wal_closed", "flush_wal_truncated"} =>
          /\ call.path \in sstFiles(sstDir)
          /\ holdsExactly(sstDir[call.path], pre.mem)
          /\ \A k \in Keys : Search(pre.mem, k) = Search(memOf(ReplayPath(TRUE, pre.walFile).records), k)
                             \/ failed
    /\ \A p \in sstFiles(sstDir) :
          /\ dataRecords(sstDir[p]).ok
          /\ strictlyAscending(dataRecords(sstDir[p]).recs)
          /\ \A j \in DOMAIN dataRecords(sstDir[p]).recs :
                dataRecords(sstDir[p]).recs[j].tomb = 1 =>
                    dataRecords(sstDir[p]).recs[j].valLen = 0

\* a table with a live entry and a tombstone has just been published
C25_Witness ==
    /\ pc = "flush_renamed"
    /\ \E j \in DOMAIN pre.mem : pre.mem[j].tomb
    /\ \E j \in DOMAIN pre.mem : ~pre.mem[j].tomb /\ pre.mem[j].value # <<>>


(***************************************************************************)
(* Open and Get on a directory of two tables of which the newer one was    *)
(* cut short on disk.                                                      *)
(***************************************************************************)
\* the older table: the key live, the key deleted, another key
OlderTables == {<<Entry(<<97>>, <<49>>, FALSE)>>, <<Entry(<<97>>, <<>>, TRUE)>>,
                <<Entry(<<98>>, <<49>>, FALSE)>>}

\* the newer table as written
newerTable == WriteTable(<<Entry(<<97>>, <<50>>, FALSE)>>)

\* file f after os.Truncate to n bytes, n within its header, data and index
cutTo(f, n) == [data |-> SubSeq(f.data, 1, n), bloom |-> NoBloom, footer |-> <<>>]

\* the newer table as found at Open: whole, or cut
NewerFiles == {newerTable} \cup {cutTo(newerTable, n) : n \in 0..Len(newerTable.data)}

InitStack ==
    /\ pc = "down"
    /\ \E old \in OlderTables, new \in NewerFiles :
          sstDir = [p \in {sstName(1), sstName(2)} |->
                       IF p = sstName(1) THEN WriteTable(old) ELSE new]
    /\ dbDir = DefaultDir
    /\ walFile = <<>>
    /\ mem = NewMemTable /\ wal = WalGone
    /\ sstables = <<>> /\ nextID = 0
    /\ call = NoCall
    /\ acked = [k \in Keys |-> Absent]
    /\ last = Returned("Close", errNil)
    /\ pre = NoSnapshot /\ recov = NoRecov /\ failed = FALSE
    /\ budget = [ops |-> 0, flushes |-> 0, events |-> 0]
    /\ tbl = <<>> /\ file = EmptyFile /\ patch = NoPatch
    /\ target = <<>> /\ res = NoResult /\ log = <<>> /\ replayed = NoReplay
    /\ MemFresh /\ ConcFresh /\ SkipFresh

NextStack == Open

SpecStack == InitStack /\ [][NextStack]_vars

\* the walk in which a table whose Get returns an error counts as not
\* holding the key
RECURSIVE walkPastErrors(_, _, _)
walkPastErrors(stack, dir, key) ==
    IF stack = <<>> THEN Absent
    ELSE LET r == SSTGet(dir[stack[1]], key)
         IN  IF r.err = errNil /\ r.res = Found THEN Present(r.value)
             ELSE IF r.err = errNil /\ r.res = Deleted THEN Absent
             ELSE walkPastErrors(Tail(stack), dir, key)

\* C26: a table of the stack on which sstable.Get returns an error counts
\* as not holding the key: Get goes on to the older tables and returns the
\* value one of them holds.
C26_ErrorTableSkipped ==
    pc = "idle" =>
        \A k \in {<<97>>, <<98>>} : DBGet(k) = walkPastErrors(sstables, sstDir, k)


(***************************************************************************)
(* Keys of the engine.                                                     *)
(***************************************************************************)
\* C27: no key held in the memtable, in the WAL or in a published SSTable is
\* the zero-length key, whatever keys Put and Delete are called with, and
\* the index of every published SSTable loads.
C27_KeysNonEmpty ==
    /\ \A j \in DOMAIN mem : mem[j].key # <<>>
    /\ ReplayPath(TRUE, walFile).err = errNil =>
          \A j \in DOMAIN walRecords : walRecords[j].key # <<>>
    /\ \A p \in sstFiles(sstDir) :
          /\ \A j \in DOMAIN dataRecords(sstDir[p]).recs :
                dataRecords(sstDir[p]).recs[j].key # <<>>
          /\ loadIndex(sstDir[p]).err = errNil


(***************************************************************************)
(* Goroutines appending to one WAL.  Each goroutine makes one call; inside *)
(* the call every write to w.buf is a step.  A call is AppendPut(key,      *)
(* value) or AppendDelete(key); its value is n copies of the byte fill.    *)
(***************************************************************************)
AppendCall(op, key, fill, n) == [op |-> op, key |-> key, fill |-> fill, n |-> n]

valueOf(c) == [j \in 1..c.n |-> c.fill]

recordOf(c) == Record(c.op, c.key, valueOf(c))

\* the bytes the call puts into the log
frameOf(c) == frame(c.op, c.key, valueOf(c))

\* the length of the shortest value whose record, with an empty key, does
\* not fit the buffer
bigLen == walBufSize - 8

\* the calls: AppendPut of a one-byte value, AppendDelete, and for the first
\* goroutine AppendPut of the long value
CallsOf(g) ==
    {AppendCall(opPut, <<97>>, 48 + g, 1), AppendCall(opDelete, <<97>>, 0, 0)}
        \cup (IF g = 1 THEN {AppendCall(opPut, <<>>, 0, bigLen)} ELSE {})

InitConc ==
    /\ pc = "wal_shared"
    /\ EngineFresh
    /\ tbl = <<>> /\ file = EmptyFile /\ patch = NoPatch
    /\ target = <<>> /\ res = NoResult /\ log = <<>> /\ replayed = NoReplay
    /\ dbDir = DefaultDir /\ MemFresh /\ SkipFresh
    /\ mu = 0 /\ wbuf = <<>> /\ wfile = <<>> /\ order = <<>>
    /\ writers \in {w \in [1..MaxWriters -> [at : {"call"}, call : UNION {CallsOf(g) : g \in 1..MaxWriters}]] :
                       \A g \in 1..MaxWriters : w[g].call \in CallsOf(g)}

concFrame == <<pc, engineVars, tbl, file, patch, target, res, log, replayed, dbDir, memVars,
              skipVars>>

\* w.mu.Lock()
ConcLock(g) ==
    /\ pc = "wal_shared" /\ writers[g].at = "call" /\ mu = 0
    /\ mu' = g
    /\ writers' = [writers EXCEPT ![g].at = "locked"]
    /\ order' = Append(order, g)
    /\ UNCHANGED <<wfile, wbuf>>
    /\ UNCHANGED concFrame

\* one write of goroutine g to w.buf, taking it from place from to place to:
\* the n bytes of its record that follow the first done bytes
ConcWrite(g, from, to, done, n) ==
    /\ pc = "wal_shared" /\ writers[g].at = from /\ mu = g
    /\ LET r == bufWrite(wbuf, wfile, Extent(g, done + 1, done + n))
       IN  wbuf' = r.buf /\ wfile' = r.file
    /\ writers' = [writers EXCEPT ![g].at = to]
    /\ UNCHANGED <<mu, order>>
    /\ UNCHANGED concFrame

\* w.buf.WriteByte(op)
ConcWriteOp(g) == ConcWrite(g, "locked", "op", 0, 1)

\* binary.Write(w.buf, binary.LittleEndian, uint32(len(keyB)))
ConcWriteKeyLen(g) == ConcWrite(g, "op", "keyLen", 1, 4)

\* binary.Write(w.buf, binary.LittleEndian, uint32(len(value)))
ConcWriteValLen(g) == ConcWrite(g, "keyLen", "valLen", 5, 4)

\* w.buf.Write(keyB)
ConcWriteKey(g) == ConcWrite(g, "valLen", "key", 9, Len(writers[g].call.key))

\* w.buf.Write(value), for a value that has bytes
ConcWriteValue(g) ==
    /\ writers[g].call.n > 0
    /\ ConcWrite(g, "key", "value", 9 + Len(writers[g].call.key), writers[g].call.n)

\* return w.buf.Flush(), and the deferred w.mu.Unlock()
ConcFlushUnlock(g) ==
    /\ pc = "wal_shared" /\ mu = g
    /\ writers[g].at = "value" \/ (writers[g].at = "key" /\ writers[g].call.n = 0)
    /\ LET r == bufFlush(wbuf, wfile)
       IN  wbuf' = r.buf /\ wfile' = r.file
    /\ mu' = 0
    /\ writers' = [writers EXCEPT ![g].at = "returned"]
    /\ UNCHANGED order
    /\ UNCHANGED concFrame

\* the bytes a sequence of extents stands for
RECURSIVE extentBytes(_)
extentBytes(xs) ==
    IF xs = <<>> THEN <<>>
    ELSE SubSeq(frameOf(writers[xs[1].g].call), xs[1].from, xs[1].to) \o extentBytes(Tail(xs))

\* a record as the call that appends it, when its value is copies of one
\* byte
packed(r) ==
    LET c == AppendCall(r.op, r.key, IF r.value = <<>> THEN 0 ELSE r.value[1], Len(r.value))
    IN  IF recordOf(c) = r THEN c ELSE r

\* wal.Replay(path) once every call has returned, its records kept packed
ConcReplay ==
    /\ pc = "wal_shared"
    /\ \A g \in DOMAIN writers : writers[g].at = "returned"
    /\ LET r == ReplayPath(TRUE, extentBytes(wfile))
       IN  replayed' = [err |-> r.err,
                        records |-> [j \in DOMAIN r.records |-> packed(r.records[j])]]
    /\ pc' = "wal_replayed"
    /\ UNCHANGED concVars
    /\ UNCHANGED <<engineVars, tbl, file, patch, target, res, log, dbDir, memVars, skipVars>>

NextConc ==
    \/ \E g \in 1..MaxWriters : ConcLock(g)
    \/ \E g \in 1..MaxWriters : ConcWriteOp(g)
    \/ \E g \in 1..MaxWriters : ConcWriteKeyLen(g)
    \/ \E g \in 1..MaxWriters : ConcWriteValLen(g)
    \/ \E g \in 1..MaxWriters : ConcWriteKey(g)
    \/ \E g \in 1..MaxWriters : ConcWriteValue(g)
    \/ \E g \in 1..MaxWriters : ConcFlushUnlock(g)
    \/ ConcReplay

SpecConc == InitConc /\ [][NextConc]_vars

\* the frames of the calls of the goroutines gs laid end to end
RECURSIVE framesOf(_)
framesOf(gs) ==
    IF gs = <<>> THEN <<>>
    ELSE frameOf(writers[gs[1]].call) \o framesOf(Tail(gs))

\* the goroutines whose calls have returned, in the order of their Lock
returnedCalls == IF mu # 0 THEN allButLast(order) ELSE order

\* C28: with several goroutines appending, the file is at every moment
\* whole records laid end to end, namely those of the calls that have
\* returned, with or without that of the call holding the mutex, in the
\* order of their Lock and with no bytes of two records mixed; once all
\* calls have returned Replay returns each record once in that order.
C28_AppendsAreUnits ==
    /\ extentBytes(wfile) \in {framesOf(returnedCalls), framesOf(order)}
    /\ pc = "wal_replayed" =>
         /\ replayed.err = errNil
         /\ replayed.records = [j \in DOMAIN order |-> writers[order[j]].call]

\* C29: whatever the file holds, Get ends with Found, Deleted, NotFound or
\* an error and never with an out-of-range access; for every Bloom region
\* that unmarshalBloom accepts, every bit position below m lies inside the
\* bitset of bitsetLen bytes.
C29_GetNeverFaults ==
    pc = "fmt_got" =>
        /\ res.err # errFault
        /\ LET u == unmarshalBloom(file.bloom)
           IN  (file.bloom.present /\ u.ok) => (u.bf.m - 1) \div 8 < u.bf.n

\* what the index region written by FmtWriteIndex says: its count and its
\* entries
saidCount == patch.pos
saidIndex == patch.junk

\* the index keys are not strictly ascending: some entry's key is not above
\* the key of the entry before it
keysNotAscending(idx) ==
    \E j \in 2..Len(idx) : ~KeyLess(idx[j - 1].key, idx[j].key)

\* C30: loadIndex reports ErrCorruptSST whenever the index keys are not
\* strictly ascending (two adjacent entries with equal keys included), an
\* index offset lies outside [headerSize, indexStartOffset), indexCount is 0
\* or above 2^20, or an index keyLen is 0 or above 2^20.
C30_LoadIndexStrict ==
    (/\ patch.kind = "index"
     /\ \/ keysNotAscending(saidIndex)
        \/ \E j \in DOMAIN saidIndex :
               \/ saidIndex[j].offset < headerSize
               \/ saidIndex[j].offset >= loadFooter(file).indexStartOffset
        \/ saidCount = 0 \/ saidCount > maxIndexCount
        \/ \E j \in DOMAIN saidIndex :
               saidIndex[j].keyLen = 0 \/ saidIndex[j].keyLen > maxIndexKeySize)
        => loadIndex(file).err = ErrCorruptSST

(***************************************************************************)
(* The memtable on its skip list: Put, Delete, Get, Range and RangeAll,    *)
(* with every outcome of randomLevel.                                      *)
(***************************************************************************)
\* "a", "ab", "b"
SkipKeys == {<<97>>, <<97, 98>>, <<98>>}
SkipValues == {<<49>>, <<50>>}

\* how many times in a row Intn(2) returns 0 when randomLevel is called
Zeros == {0, 1, 20}

InitSkip ==
    /\ pc = "skip"
    /\ EngineFresh
    /\ tbl = <<>> /\ file = EmptyFile /\ patch = NoPatch
    /\ target = <<>> /\ res = NoResult /\ log = <<>> /\ replayed = NoReplay
    /\ MoreFresh

skipFrame == <<engineVars, tbl, file, patch, target, res, log, replayed, dbDir, memVars,
               concVars>>

\* the last writes with that of key replaced by entry
lastWrite(w, entry) == {e \in w : e.key # entry.key} \cup {entry}

\* m.Put(key, value)
SkipPutCall(key, value, zeros) ==
    /\ pc = "skip"
    /\ skip' = SkipPut(skip, key, value, randomLevel(zeros))
    /\ wrote' = lastWrite(wrote, Entry(key, value, FALSE))
    /\ UNCHANGED <<pc, got>>
    /\ UNCHANGED skipFrame

\* m.Delete(key)
SkipDeleteCall(key, zeros) ==
    /\ pc = "skip"
    /\ skip' = SkipDelete(skip, key, randomLevel(zeros))
    /\ wrote' = lastWrite(wrote, Entry(key, <<>>, TRUE))
    /\ UNCHANGED <<pc, got>>
    /\ UNCHANGED skipFrame

\* v, ok := m.Get(key)
SkipGetCall(key) ==
    /\ pc = "skip"
    /\ got' = [op |-> "Get", key |-> key, end |-> <<>>, ok |-> SkipGet(skip, key).ok,
               out |-> SkipGet(skip, key).value]
    /\ pc' = "skip_got"
    /\ UNCHANGED <<skip, wrote>>
    /\ UNCHANGED skipFrame

\* out := m.Range(start, end)   or   out := m.RangeAll(start, end)
SkipRangeCall(start, end, all) ==
    /\ pc = "skip"
    /\ got' = [op |-> IF all THEN "RangeAll" ELSE "Range", key |-> start, end |-> end,
               ok |-> TRUE, out |-> SkipRange(skip, start, end, all)]
    /\ pc' = "skip_got"
    /\ UNCHANGED <<skip, wrote>>
    /\ UNCHANGED skipFrame

NextSkip ==
    \/ \E key \in SkipKeys, value \in SkipValues, zeros \in Zeros : SkipPutCall(key, value, zeros)
    \/ \E key \in SkipKeys, zeros \in Zeros : SkipDeleteCall(key, zeros)
    \/ \E key \in SkipKeys : SkipGetCall(key)
    \/ \E start \in SkipKeys \cup {<<>>}, end \in SkipKeys \cup {<<>>}, all \in BOOLEAN :
          SkipRangeCall(start, end, all)

SpecSkip == InitSkip /\ [][NextSkip]_vars

\* the nodes linked at level i from node n on, at most fuel of them
RECURSIVE linkedFrom(_, _, _, _)
linkedFrom(s, n, i, fuel) ==
    IF n = nilNode \/ fuel = 0 \/ i > Len(s.nodes[n].forward) THEN <<>>
    ELSE <<n>> \o linkedFrom(s, s.nodes[n].forward[i], i, fuel - 1)

\* the nodes linked at level i, from the head's successor on
linkedAt(s, i) == linkedFrom(s, s.nodes[headNode].forward[i], i, Len(s.nodes))

\* a is b with some elements left out
RECURSIVE isSubsequence(_, _)
isSubsequence(a, b) ==
    IF a = <<>> THEN TRUE
    ELSE IF b = <<>> THEN FALSE
    ELSE IF a[1] = b[1] THEN isSubsequence(Tail(a), Tail(b))
    ELSE isSubsequence(a, Tail(b))

\* the nodes that were made for keys: all but the head
keyNodes(s) == 2..Len(s.nodes)

\* the greatest height of a node made for a key, 1 when there is none
RECURSIVE greatestHeight(_, _)
greatestHeight(s, n) ==
    IF n > Len(s.nodes) THEN 1
    ELSE IF Len(s.nodes[n].forward) > greatestHeight(s, n + 1)
         THEN Len(s.nodes[n].forward) ELSE greatestHeight(s, n + 1)

\* the shape of the skip list
skipShape(s) ==
    /\ \A j \in 1..(Len(linkedAt(s, 1)) - 1) :
           KeyLess(s.nodes[linkedAt(s, 1)[j]].key, s.nodes[linkedAt(s, 1)[j + 1]].key)
    /\ {linkedAt(s, 1)[j] : j \in DOMAIN linkedAt(s, 1)} = keyNodes(s)
    /\ Len(linkedAt(s, 1)) = Cardinality({e.key : e \in wrote})
    /\ {s.nodes[n].key : n \in keyNodes(s)} = {e.key : e \in wrote}
    /\ \A i \in 2..maxLevel : isSubsequence(linkedAt(s, i), linkedAt(s, i - 1))
    /\ \A n \in keyNodes(s) :
           Len(s.nodes[n].forward) >= 1 /\ Len(s.nodes[n].forward) <= maxLevel
    /\ s.level = greatestHeight(s, 2)
    /\ \A i \in 1..maxLevel : i > s.level => s.nodes[headNode].forward[i] = nilNode

\* an Upsert for a key that has a node leaves the level, the nodes, their
\* keys and their forward pointers as they are, and changes no entry but
\* that of the key's node, which becomes the entry upserted
upsertInPlace ==
    (pc' = "skip" /\ {e.key : e \in wrote'} = {e.key : e \in wrote})
    => /\ skip'.level = skip.level
       /\ Len(skip'.nodes) = Len(skip.nodes)
       /\ \A n \in DOMAIN skip.nodes :
              /\ skip'.nodes[n].key = skip.nodes[n].key
              /\ skip'.nodes[n].forward = skip.nodes[n].forward
              /\ skip'.nodes[n].entry # skip.nodes[n].entry
                     => /\ skip'.nodes[n].entry \in wrote' \ wrote
                        /\ skip'.nodes[n].entry.key = skip.nodes[n].key
       /\ \A e \in wrote' \ wrote :
              \E n \in keyNodes(skip) : skip'.nodes[n].key = e.key /\ skip'.nodes[n].entry = e

\* C31: after any sequence of Upsert calls (made by Put and Delete) the
\* level-0 chain holds every node once, in strictly ascending key order, one
\* node per key written; the chain of each level above is a subsequence of
\* the chain below it; every node's height is between 1 and maxLevel; the
\* list's level is the greatest height (1 for the empty list) and the head
\* has no successor above it; and an Upsert for a key that has a node
\* changes nothing but that node's entry.
C31_SkipListShape == [](skipShape(skip)) /\ [][upsertInPlace]_vars

\* three keys put in descending order with heights 2, 16 and 1, the one in
\* the middle deleted
C31_Witness ==
    /\ pc = "skip" /\ Len(skip.nodes) = 4 /\ skip.level = maxLevel
    /\ skip.nodes[2].key = <<98>> /\ Len(skip.nodes[2].forward) = 2
    /\ skip.nodes[3].key = <<97, 98>> /\ Len(skip.nodes[3].forward) = maxLevel
    /\ skip.nodes[4].key = <<97>> /\ Len(skip.nodes[4].forward) = 1
    /\ skip.nodes[3].entry = Entry(<<97, 98>>, <<>>, TRUE)
    /\ linkedAt(skip, 1) = <<4, 3, 2>> /\ linkedAt(skip, 2) = <<3, 2>>
    /\ linkedAt(skip, 3) = <<3>>

\* what Get has to return for key after the writes w
lastPut(w, key) ==
    IF \E e \in w : e.key = key /\ ~e.tomb
    THEN Present((CHOOSE e \in w : e.key = key /\ ~e.tomb).value)
    ELSE Absent

\* C32: whatever heights randomLevel chose, Get(k) returns the value of the
\* last Put(k) when the last write to k is a Put, and not-present when it is
\* a Delete or k was never written; and the list holds one node for each
\* key written and none for the others, however often a key was written.
C32_GetReturnsLastWrite ==
    /\ (pc = "skip_got" /\ got.op = "Get")
           => [ok |-> got.ok, value |-> got.out] = lastPut(wrote, got.key)
    /\ \A k \in SkipKeys :
           Cardinality({n \in keyNodes(skip) : skip.nodes[n].key = k})
               = IF \E e \in wrote : e.key = k THEN 1 ELSE 0
    /\ Len(skip.nodes) = 1 + Cardinality(wrote)

\* Get("ab") returned "2", the value last put, from a list of three nodes of
\* heights 1, 2 and 16 in which "a" was deleted
C32_Witness ==
    /\ pc = "skip_got" /\ got.op = "Get" /\ got.key = <<97, 98>>
    /\ got.ok /\ got.out = <<50>>
    /\ Len(skip.nodes) = 4 /\ skip.level = maxLevel
    /\ {Len(skip.nodes[n].forward) : n \in keyNodes(skip)} = {1, 2, maxLevel}
    /\ Entry(<<97>>, <<>>, TRUE) \in wrote

\* the last writes whose key is in [start, end), an empty start or end being
\* no bound; the tombstones among them when all
inRange(w, start, end, all) ==
    {e \in w : /\ start = <<>> \/ ~KeyLess(e.key, start)
               /\ end = <<>> \/ KeyLess(e.key, end)
               /\ all \/ ~e.tomb}

\* C33: Range(start, end) returns, in strictly ascending key order whatever
\* the order of the writes was, exactly the entries last written that are
\* not tombstones and whose key k has start <= k < end, an empty start or
\* end being no bound (so nothing when start >= end, both non-empty);
\* RangeAll returns these and the tombstones of the interval.
C33_RangeIsTheInterval ==
    (pc = "skip_got" /\ got.op \in {"Range", "RangeAll"})
        => /\ \A j \in 1..(Len(got.out) - 1) : KeyLess(got.out[j].key, got.out[j + 1].key)
           /\ {got.out[j] : j \in DOMAIN got.out}
                  = inRange(wrote, got.key, got.end, got.op = "RangeAll")
           /\ (got.key # <<>> /\ got.end # <<>> /\ ~KeyLess(got.key, got.end))
                  => got.out = <<>>

\* "b", "ab", "a" written in this order, "ab" deleted: RangeAll("a", "b")
\* returned "a" and the tombstone of "ab"
C33_Witness ==
    /\ pc = "skip_got" /\ got.op = "RangeAll" /\ got.key = <<97>> /\ got.end = <<98>>
    /\ Len(got.out) = 2 /\ got.out[1].key = <<97>> /\ ~got.out[1].tomb
    /\ got.out[2] = Entry(<<97, 98>>, <<>>, TRUE)
    /\ Len(skip.nodes) = 4
    /\ skip.nodes[2].key = <<98>> /\ skip.nodes[3].key = <<97, 98>>
    /\ skip.nodes[4].key = <<97>>

(***************************************************************************)
(* The Bloom filter of a written table, read back from the bytes of its    *)
(* region.                                                                 *)
(***************************************************************************)
\* binary.LittleEndian.Uint32(p[j:j+4]) on the bytes of the Bloom region r
bloomU32(r, j) ==
    bloomByte(r, j) + 256 * bloomByte(r, j + 1) + 65536 * bloomByte(r, j + 2)
        + 16777216 * bloomByte(r, j + 3)

\* bloom.get(i) on the bitset copied from p[12:]
bloomGet(r, i) == (bloomByte(r, 12 + i \div 8) \div (2 ^ (i % 8))) % 2 = 1

\* the loop of mayContain from round j on, on the bytes of region r
RECURSIVE probeBytes(_, _, _)
probeBytes(r, t, j) ==
    IF j > Len(t) THEN "yes"
    ELSE IF t[j] \div 8 >= bloomU32(r, 8) THEN "fault"
    ELSE IF ~bloomGet(r, t[j]) THEN "no"
    ELSE probeBytes(r, t, j + 1)

\* unmarshalBloom of the bytes of region r, then mayContain(key)
mayContainRead(r, key) ==
    IF bloomLen(r) < 12 \/ bloomU32(r, 0) = 0 \/ bloomByte(r, 4) = 0
       \/ 12 + bloomU32(r, 8) # bloomLen(r) \/ bloomU32(r, 8) = 0
    THEN "corrupt"
    ELSE probeBytes(r, tapsFor(bloomU32(r, 0), bloomByte(r, 4), key), 1)

\* the keys of the entries of a table
keysOf(tb) == {tb[j].key : j \in DOMAIN tb}

\* C34: in a file as WriteTable wrote it, the Bloom region is accepted by
\* unmarshalBloom and the filter read back from it says mayContain for every
\* key of the table; and Get of a key of the table does not return NotFound.
C34_BloomHoldsEveryKey ==
    (pc \in {"sst_written", "sst_got"} /\ patch = NoPatch)
        => /\ unmarshalBloom(file.bloom).ok
           /\ \A k \in keysOf(tbl) :
                  /\ mayContain(unmarshalBloom(file.bloom).bf, k) = "yes"
                  /\ mayContainRead(file.bloom, k) = "yes"
           /\ (pc = "sst_got" /\ target \in keysOf(tbl))
                  => res.err = errNil /\ res.res \in {Found, Deleted}

\* Get of the last key of a table of more than indexStride entries, on the
\* file as written, whose filter holds the seven bits of that key
C34_Witness ==
    /\ pc = "sst_got" /\ patch = NoPatch /\ Len(tbl) > indexStride
    /\ target = tbl[Len(tbl)].key
    /\ res.res \in {Found, Deleted}
    /\ Cardinality({bloomTaps(bloomBits, bloomHashes, target)[j] : j \in 1..bloomHashes}
                       \cap file.bloom.bits) = bloomHashes
    /\ mayContainRead(file.bloom, target) = "yes"

\* the first record of file f: its valLen and tomb fields and its key
firstValLen(f) == u32At(f, headerSize + 4)
firstTomb(f) == byteAt(f, headerSize + 8)
firstKey(f) == readAt(f, headerSize + 9, u32At(f, headerSize))

\* C35: Get of a key whose record has tomb = 1 and valLen > 0 returns
\* ErrCorruptSST (here the record is the first of the file, as WriteTable
\* wrote it).
C35_TombWithValueIsCorrupt ==
    (/\ pc = "sst_got" /\ patch = NoPatch
     /\ firstTomb(file) = 1 /\ firstValLen(file) > 0
     /\ firstKey(file) = target)
        => res.err = ErrCorruptSST

\* the last acknowledged write to k is a Put of the zero-length value, and
\* the engine is up with no failed call and no write to k cut by a crash
emptyPut(k) ==
    /\ pc = "idle" /\ ~failed
    /\ acked[k] = Present(<<>>)
    /\ inflightResult(k) = {}

\* the first SSTable of the stack that has a record for k holds it with no
\* value bytes and tomb = 0: Get reads it as Found with an empty value
foundEmpty(k) ==
    \E i \in DOMAIN sstables :
        /\ tableResult(i, k) = GetReturn(<<>>, Found, errNil)
        /\ \A j \in 1..(i - 1) : tableResult(j, k) = GetReturn(<<>>, NotFound, errNil)

\* C36: after Put(k, empty) as the last write to k, Get(k) reports k present
\* with an empty value: while the entry is in the memtable (in the process
\* that put it, and in the memtable rebuilt from the WAL by Open), where the
\* entry is not a tombstone, and after Flush, where the record of k in the
\* newest SSTable that has one is read as Found.
C36_EmptyValueIsPresent ==
    \A k \in Keys :
        emptyPut(k) =>
            /\ DBGet(k) = Present(<<>>)
            /\ GetAll(mem, k).ok => GetAll(mem, k).entry = Entry(k, <<>>, FALSE)
            /\ ~GetAll(mem, k).ok => foundEmpty(k)

=============================================================================
